---- MODULE Spec2Model ----
(***************************************************************************)
(* Model of src/core_accessors.c of ecfs: the text merger that rewrites a *)
(* core file (merge_exe_text_into_core, merge_text_image,                 *)
(* merge_shlib_texts_into_core), the section-header synthesizer           *)
(* (core2ecfs, build_section_headers), the symbol reconstructor           *)
(* (build_local_symtab_and_finalize), the personality record              *)
(* (parse_orig_phdrs, build_elf_stats), the note walk (parse_notes_area), *)
(* the loader (load_core_file), the system calls on the output file, and  *)
(* the readers of the live process (get_maps, fill_sock_info,             *)
(* get_fd_links, get_segment_from_pmem, create_shlib_text_mappings).      *)
(*                                                                         *)
(* File contents are sequences of extents [src, off, len]: the bytes      *)
(* src[off .. off+len).  Every byte of every source is its own symbol, so *)
(* two files are equal byte for byte exactly when their normalised extent *)
(* sequences are equal.  The program-header table of a core is kept as a  *)
(* sequence of records next to the extents that cover its bytes.          *)
(***************************************************************************)
EXTENDS Integers, Sequences, FiniteSets, TLC

VARIABLES
    pc,        \* position in the pipeline that is being modelled
    corefile,  \* the core file on disk: [elf, phdr, data, size]
    core0,     \* the core file as the kernel wrote it (never changes)
    memdesc,   \* live-process view: [text, maps]
    mi,        \* loop index i of merge_shlib_texts_into_core
    last,      \* what the last merge call did (history)
    exe,       \* the original executable file and what else the run is given
    handle,    \* handle_t: elfdesc, notedesc, smeta, elfstat
    global_hacks,     \* the process-wide fallback record
    ecfs_file,        \* ecfs_file_t: the recorded payload offsets and sizes
    text_shdr_index,  \* the static that build_section_headers leaves behind
    outfile,   \* the output file
    procfs     \* what /proc shows of the process, and the signals sent to it

vars == <<pc, corefile, core0, memdesc, mi, last,
          exe, handle, global_hacks, ecfs_file, text_shdr_index, outfile, procfs>>

\* what the text merges never touch
ecfsVars == <<exe, handle, global_hacks, ecfs_file, text_shdr_index, outfile>>
\* what the conversion to the output format never touches
mergeVars == <<core0, mi, last>>

-----------------------------------------------------------------------------
(* Bounds *)
MaxLibs == 2         \* shared libraries in the process
MaxTextPages == 2    \* pages of a text mapping

(* Program constants *)
PAGE == 4096
PF_X == 1
PF_W == 2
PF_R == 4

(* Layout of the modelled core files *)
VSTRIDE == 16 * PAGE     \* distance between the vaddr of two mappings

HasFlag(flags, bit) == (flags \div bit) % 2 = 1

-----------------------------------------------------------------------------
(* Extents: file and buffer contents *)

Ext(src, off, len) == [src |-> src, off |-> off, len |-> len]

AppendExt(s, e) ==
    IF e.len = 0 THEN s
    ELSE IF s # <<>> /\ s[Len(s)].src = e.src /\ e.src # "oob"
            /\ s[Len(s)].off + s[Len(s)].len = e.off
         THEN [s EXCEPT ![Len(s)].len = @ + e.len]
         ELSE Append(s, e)

RECURSIVE Cat(_, _)
Cat(s, t) == IF t = <<>> THEN s ELSE Cat(AppendExt(s, Head(t)), Tail(t))

RECURSIVE Size(_)
Size(s) == IF s = <<>> THEN 0 ELSE Head(s).len + Size(Tail(s))

RECURSIVE TakeBytes(_, _)
TakeBytes(s, n) ==
    IF n <= 0 \/ s = <<>> THEN <<>>
    ELSE IF Head(s).len <= n
         THEN <<Head(s)>> \o TakeBytes(Tail(s), n - Head(s).len)
         ELSE <<[Head(s) EXCEPT !.len = n]>>

RECURSIVE DropBytes(_, _)
DropBytes(s, n) ==
    IF s = <<>> THEN <<>>
    ELSE IF n <= 0 THEN s
    ELSE IF Head(s).len <= n THEN DropBytes(Tail(s), n - Head(s).len)
    ELSE <<[Head(s) EXCEPT !.off = @ + n, !.len = @ - n]>> \o Tail(s)

\* the bytes [a, b) of s (clipped to s)
Slice(s, a, b) == TakeBytes(DropBytes(s, a), b - a)

Min(a, b) == IF a < b THEN a ELSE b
Max(a, b) == IF a < b THEN b ELSE a

-----------------------------------------------------------------------------
(* The core files and processes the merges are run on.                     *)
(* A kernel core has PT_NOTE first and then one PT_LOAD per mapping, in    *)
(* address order, the file offsets following each other.  The mappings are *)
(* exe text, exe data, then text and data of each library, then the stack. *)
(* How much of a file-backed text mapping the kernel dumped depends on the *)
(* process's coredump filter: nothing, the first page, or all of it.       *)

LibNames == <<"libfoo.so", "libbar.so", "libbaz.so", "libqux.so">>
Filters == {"none", "hdr", "full"}

NSegs(L) == 2 * L + 3
IsTextSeg(k, L) == k < NSegs(L) /\ k % 2 = 1
SegLib(k) == (k - 1) \div 2          \* 0 for the executable, j for library j
SegVaddr(k) == k * VSTRIDE
SegFlags(k, L) == IF IsTextSeg(k, L) THEN PF_R + PF_X ELSE PF_R + PF_W
SegMemsz(k, L, tp) == IF IsTextSeg(k, L) THEN tp[SegLib(k)] * PAGE ELSE PAGE
SegFilesz(k, L, tp, filt) ==
    IF IsTextSeg(k, L)
    THEN CASE filt = "none" -> 0
           [] filt = "hdr"  -> PAGE
           [] OTHER         -> SegMemsz(k, L, tp)
    ELSE SegMemsz(k, L, tp)

NoteHdr == [p_type |-> "PT_NOTE", p_flags |-> 0, p_offset |-> 512,
            p_vaddr |-> 0, p_filesz |-> 1024, p_memsz |-> 0]

\* the PT_LOAD headers of segments k..NSegs(L), the first at file offset off;
\* library `absent` was mapped after the dump and has no header
RECURSIVE LoadHdrs(_, _, _, _, _, _)
LoadHdrs(k, off, L, tp, filt, absent) ==
    IF k > NSegs(L) THEN <<>>
    ELSE IF k < NSegs(L) /\ SegLib(k) = absent /\ absent # 0
         THEN LoadHdrs(k + 1, off, L, tp, filt, absent)
         ELSE <<[p_type |-> "PT_LOAD", p_flags |-> SegFlags(k, L),
                 p_offset |-> off, p_vaddr |-> SegVaddr(k),
                 p_filesz |-> SegFilesz(k, L, tp, filt),
                 p_memsz |-> SegMemsz(k, L, tp)]>>
              \o LoadHdrs(k + 1, off + SegFilesz(k, L, tp, filt), L, tp, filt, absent)

RECURSIVE FileEnd(_)
FileEnd(phdr) ==
    IF phdr = <<>> THEN 0
    ELSE Max(Head(phdr).p_offset + Head(phdr).p_filesz, FileEnd(Tail(phdr)))

KernelCore(L, tp, filt, absent) ==
    LET phdr == <<NoteHdr>> \o LoadHdrs(1, PAGE, L, tp, filt, absent)
    IN  [elf |-> "core", phdr |-> phdr,
         data |-> <<Ext("core", 0, FileEnd(phdr))>>, size |-> FileEnd(phdr)]

\* the mapping list of the process: one record per segment
Mapping(k, L, tp) ==
    [base |-> SegVaddr(k), size |-> SegMemsz(k, L, tp),
     shlib |-> (SegLib(k) >= 1 /\ k < NSegs(L)), p_flags |-> SegFlags(k, L),
     stack |-> (k = NSegs(L)), heap |-> FALSE, vdso |-> FALSE, vsyscall |-> FALSE,
     text_image |-> IF SegLib(k) >= 1 /\ IsTextSeg(k, L) THEN LibNames[SegLib(k)] ELSE "",
     text_len |-> IF SegLib(k) >= 1 /\ IsTextSeg(k, L) THEN SegMemsz(k, L, tp) ELSE 0]

Maps(L, tp) == [k \in 1..NSegs(L) |-> Mapping(k, L, tp)]

NoMerge == [op |-> "none", pre |-> <<>>, idx |-> 0, tlen |-> 0, ret |-> 0,
            renamed |-> FALSE, textOffset |-> 0, nextOffset |-> 0, oob |-> 0,
            beyond |-> FALSE, mapi |-> 0]

-----------------------------------------------------------------------------
(* merge_exe_text_into_core and merge_text_image *)

\* (mutant) the page the kernel left in the file is not subtracted
PushByWholeText(tlen) == tlen

\* "+= (tlen - 4096)": how far the headers after the text header are pushed
PushBy(tlen) == tlen - PAGE

\* what a read of phdr[i].p_offset yields; beyond the table it is whatever
\* bytes follow the table in the mapped file
OffsetAt(ph, i, junk) == IF i <= Len(ph) THEN ph[i].p_offset ELSE junk

\* "phdr[i].p_offset += (tlen - 4096)"; beyond the table the write lands in
\* the bytes that follow it and changes no header
Push(ph, i, tlen) ==
    IF i <= Len(ph) THEN [ph EXCEPT ![i].p_offset = @ + PushBy(tlen)] ELSE ph

\* (mutant) the assignment the wrong way round
ExpandReversed(ph, i) == [ph EXCEPT ![i].p_memsz = ph[i].p_filesz]

\* "phdr[i].p_filesz = phdr[i].p_memsz"
Expand(ph, i) == [ph EXCEPT ![i].p_filesz = ph[i].p_memsz]

\* the test of the loop of merge_exe_text_into_core
ExeMatches(h, textVaddr) ==
    h.p_vaddr <= textVaddr /\ h.p_vaddr + h.p_memsz > textVaddr

\* one iteration of the loop of merge_exe_text_into_core
ExeStep(st, i, tlen, junk) ==
    IF ExeMatches(st.phdr[i], st.textVaddr)
    THEN [st EXCEPT !.textOffset = st.phdr[i].p_offset,
                    !.dataOffset = OffsetAt(st.phdr, i + 1, junk),
                    !.textVaddr = st.phdr[i].p_vaddr,
                    !.found_text = @ + 1,
                    !.idx = i,
                    !.data_index = i + 1,
                    !.beyond = @ \/ i + 1 > Len(st.phdr),
                    !.phdr = Push(Expand(st.phdr, i), i + 1, tlen)]
    ELSE IF st.found_text > 0
         THEN IF i = st.data_index THEN st
              ELSE [st EXCEPT !.phdr = Push(st.phdr, i, tlen)]
         ELSE st

RECURSIVE ExeWalk(_, _, _, _)
ExeWalk(st, i, tlen, junk) ==
    IF i > Len(st.phdr) THEN st
    ELSE ExeWalk(ExeStep(st, i, tlen, junk), i + 1, tlen, junk)

ExeWalkInit(phdr, textVaddr) ==
    [phdr |-> phdr, textVaddr |-> textVaddr, found_text |-> 0, idx |-> 0,
     data_index |-> 0, textOffset |-> 0, dataOffset |-> 0, beyond |-> FALSE]

\* the test of the loop of merge_text_image
LibMatches(h, text_addr) == text_addr = h.p_vaddr

\* (mutant) the found_text test is missing: headers before the text are pushed too
LibStepPushAll(st, i, text_addr, tlen, junk) ==
    IF LibMatches(st.phdr[i], text_addr)
    THEN [st EXCEPT !.textOffset = st.phdr[i].p_offset,
                    !.nextOffset = OffsetAt(st.phdr, i + 1, junk),
                    !.found_text = @ + 1,
                    !.idx = i,
                    !.beyond = @ \/ i + 1 > Len(st.phdr),
                    !.phdr = Expand(st.phdr, i)]
    ELSE IF st.phdr[i].p_type = "PT_LOAD"
         THEN [st EXCEPT !.phdr = Push(st.phdr, i, tlen)]
         ELSE st

\* one iteration of the loop of merge_text_image
LibStep(st, i, text_addr, tlen, junk) ==
    IF LibMatches(st.phdr[i], text_addr)
    THEN [st EXCEPT !.textOffset = st.phdr[i].p_offset,
                    !.nextOffset = OffsetAt(st.phdr, i + 1, junk),
                    !.found_text = @ + 1,
                    !.idx = i,
                    !.beyond = @ \/ i + 1 > Len(st.phdr),
                    !.phdr = Expand(st.phdr, i)]
    ELSE IF st.found_text > 0 /\ st.phdr[i].p_type = "PT_LOAD"
         THEN [st EXCEPT !.phdr = Push(st.phdr, i, tlen)]
         ELSE st

RECURSIVE LibWalk(_, _, _, _, _)
LibWalk(st, i, text_addr, tlen, junk) ==
    IF i > Len(st.phdr) THEN st
    ELSE LibWalk(LibStep(st, i, text_addr, tlen, junk), i + 1, text_addr, tlen, junk)

\* (mutant) found_text starts at 1: a walk that finds no header does not fail
LibWalkInitFound(phdr) ==
    [phdr |-> phdr, found_text |-> 1, idx |-> 0,
     textOffset |-> 0, nextOffset |-> 0, beyond |-> FALSE]

LibWalkInit(phdr) ==
    [phdr |-> phdr, found_text |-> 0, idx |-> 0,
     textOffset |-> 0, nextOffset |-> 0, beyond |-> FALSE]

\* the byte count of the third write: "st.st_size - textOffset"
TailCount(st_size, textOffset, nextOffset) == st_size - textOffset

\* write(out, &mem[from], count): the part of the request that lies in the file
InFile(mem, from, count) == Slice(mem, from, Min(from + count, Size(mem)))

\* ... and the number of requested bytes that lie past the end of the mapping
Overrun(mem, from, count) == count - Size(InFile(mem, from, count))

\* A write whose buffer runs past the mapping copies what the kernel can
\* read there: nothing, a page, or all of it (memory that is not the file).
OobLens(overrun) == IF overrun <= 0 THEN {0} ELSE {0, Min(PAGE, overrun), overrun}

\* the three writes to the temporary file
Merged(mem, textOffset, src, tlen, from, count, oob) ==
    Cat(Cat(Cat(TakeBytes(mem, textOffset), <<Ext(src, 0, tlen)>>),
            InFile(mem, from, count)),
        <<Ext("oob", 0, oob)>>)

\* write() returns -1 when it could copy no byte of a non-empty request
WriteFails(mem, from, count, oob) ==
    count > 0 /\ Size(InFile(mem, from, count)) = 0 /\ oob = 0

JunkOffsets == {0, PAGE}

\* (mutant) munmap accepts any length
MunmapNeverFails(tlen) == FALSE

\* "munmap(text_image, tlen) < 0": a length of 0 is EINVAL
MunmapFails(tlen) == tlen <= 0

-----------------------------------------------------------------------------
(* The text-merge pipeline: merge_exe_text_into_core once, then           *)
(* merge_shlib_texts_into_core, whose loop calls merge_text_image.         *)

InitMerge ==
    \E tp \in [0..MaxLibs -> 1..MaxTextPages], filt \in Filters,
       absent \in 0..MaxLibs, tb \in {0, SegVaddr(1), SegVaddr(1) + PAGE} :
        /\ core0 = KernelCore(MaxLibs, tp, filt, absent)
        /\ corefile = core0
        /\ memdesc = [text |-> [base |-> tb, size |-> tp[0] * PAGE],
                      textseg |-> "exe", maps |-> Maps(MaxLibs, tp)]
        /\ pc = "exe"
        /\ mi = 1
        /\ last = NoMerge
        /\ exe = <<>>
        /\ handle = <<>>
        /\ global_hacks = <<>>
        /\ ecfs_file = <<>>
        /\ text_shdr_index = 0
        /\ outfile = <<>>
        /\ procfs = <<>>

\* merge_exe_text_into_core: no text address, return -1 before the file is touched
MergeExeNoText ==
    /\ pc = "exe"
    /\ memdesc.text.base = 0
    /\ pc' = "failed"
    /\ last' = [NoMerge EXCEPT !.op = "exe", !.pre = corefile, !.ret = -1]
    /\ UNCHANGED <<corefile, core0, memdesc, mi>>
    /\ UNCHANGED ecfsVars
    /\ UNCHANGED procfs

\* merge_exe_text_into_core: the header walk, the three writes, the rename
MergeExe ==
    /\ pc = "exe"
    /\ memdesc.text.base # 0
    /\ LET tlen == memdesc.text.size
           mem  == corefile.data
       IN \E junk \in JunkOffsets :
          LET st    == ExeWalk(ExeWalkInit(corefile.phdr, memdesc.text.base), 1, tlen, junk)
              count == TailCount(corefile.size, st.textOffset, st.dataOffset)
          IN  /\ (~st.beyond) => junk = 0
              /\ \E oob \in OobLens(Overrun(mem, st.dataOffset, count)) :
                   LET fails == st.textVaddr = 0
                                  \/ WriteFails(mem, st.dataOffset, count, oob)
                       data  == Merged(mem, st.textOffset, memdesc.textseg, tlen,
                                       st.dataOffset, count, oob)
                   IN  /\ last' = [op |-> "exe", pre |-> corefile, idx |-> st.idx,
                                   tlen |-> tlen, ret |-> IF fails THEN -1 ELSE 0,
                                   renamed |-> ~fails, textOffset |-> st.textOffset,
                                   nextOffset |-> st.dataOffset, oob |-> oob,
                                   beyond |-> st.beyond, mapi |-> 0]
                       /\ corefile' =
                            IF fails THEN corefile
                            ELSE IF st.found_text > 0
                                 THEN [elf |-> "core", phdr |-> st.phdr,
                                       data |-> data, size |-> Size(data)]
                                 ELSE [elf |-> "text", phdr |-> <<>>,
                                       data |-> data, size |-> Size(data)]
                       /\ pc' = IF fails THEN "failed"
                                ELSE IF st.found_text > 0 THEN "libs" ELSE "clobbered"
    /\ UNCHANGED <<core0, memdesc, mi>>
    /\ UNCHANGED ecfsVars
    /\ UNCHANGED procfs

\* merge_shlib_texts_into_core: a mapping that is no executable library mapping
ShlibSkip ==
    /\ pc = "libs"
    /\ mi <= Len(memdesc.maps)
    /\ ~(memdesc.maps[mi].shlib /\ HasFlag(memdesc.maps[mi].p_flags, PF_X))
    /\ mi' = mi + 1
    /\ UNCHANGED <<pc, corefile, core0, memdesc, last>>
    /\ UNCHANGED ecfsVars
    /\ UNCHANGED procfs

\* merge_shlib_texts_into_core calls merge_text_image for mapping mi
MergeTextImage ==
    /\ pc = "libs"
    /\ mi <= Len(memdesc.maps)
    /\ memdesc.maps[mi].shlib /\ HasFlag(memdesc.maps[mi].p_flags, PF_X)
    /\ LET m    == memdesc.maps[mi]
           tlen == m.text_len
           mem  == corefile.data
       IN \E junk \in JunkOffsets :
          LET st    == LibWalk(LibWalkInit(corefile.phdr), 1, m.base, tlen, junk)
              count == TailCount(corefile.size, st.textOffset, st.nextOffset)
          IN  /\ (~st.beyond) => junk = 0
              /\ \E oob \in IF st.found_text = 0 THEN {0}
                              ELSE OobLens(Overrun(mem, st.nextOffset, count)) :
                   LET fails == st.found_text = 0
                                  \/ MunmapFails(tlen)
                                  \/ WriteFails(mem, st.nextOffset, count, oob)
                       data  == Merged(mem, st.textOffset, m.text_image, tlen,
                                       st.nextOffset, count, oob)
                   IN  /\ last' = [op |-> "lib", pre |-> corefile, idx |-> st.idx,
                                   tlen |-> tlen, ret |-> IF fails THEN -1 ELSE 0,
                                   renamed |-> ~fails, textOffset |-> st.textOffset,
                                   nextOffset |-> st.nextOffset, oob |-> oob,
                                   beyond |-> st.beyond, mapi |-> mi]
                       /\ corefile' =
                            IF fails THEN corefile
                            ELSE [elf |-> "core", phdr |-> st.phdr,
                                  data |-> data, size |-> Size(data)]
    /\ mi' = mi + 1
    /\ UNCHANGED <<pc, core0, memdesc>>
    /\ UNCHANGED ecfsVars
    /\ UNCHANGED procfs

\* merge_shlib_texts_into_core returns
MergeShlibsReturn ==
    /\ pc = "libs"
    /\ mi > Len(memdesc.maps)
    /\ pc' = "merged"
    /\ UNCHANGED <<corefile, core0, memdesc, mi, last>>
    /\ UNCHANGED ecfsVars
    /\ UNCHANGED procfs

Init == InitMerge

Next ==
    \/ MergeExeNoText
    \/ MergeExe
    \/ ShlibSkip
    \/ MergeTextImage
    \/ MergeShlibsReturn

Spec == Init /\ [][Next]_vars

-----------------------------------------------------------------------------
(* Claims about the text merges *)

\* a merge that found its text header and renamed the rewritten file over the core
Merged1 == last.op \in {"exe", "lib"} /\ last.renamed /\ last.idx > 0

\* C1: after a single text merge the merged header has p_filesz = p_memsz,
\* every later header's p_offset has grown by exactly text_len - 4096, and
\* the merged header and the headers before it keep their p_offset.
C1_MergeShiftsLaterHeaders ==
    Merged1 =>
        LET pre == last.pre.phdr
            post == corefile.phdr
        IN  /\ Len(post) = Len(pre)
            /\ post[last.idx].p_filesz = post[last.idx].p_memsz
            /\ \A j \in DOMAIN pre :
                   post[j].p_offset =
                       IF j > last.idx THEN pre[j].p_offset + (last.tlen - 4096)
                       ELSE pre[j].p_offset

\* C1 witness: a library merge of more than a page with two headers after it
C1_Witness ==
    /\ Merged1 /\ last.op = "lib" /\ last.tlen > PAGE
    /\ last.idx + 2 <= Len(corefile.phdr)
    /\ last.pre.phdr # core0.phdr

\* C2: the rewritten file is bytes [0, textOffset) of the core, the text, and
\* bytes [nextOffset, size) of the core; its length is textOffset + text_len +
\* (size - nextOffset); nothing outside the original file is read or copied.
C2_MergedFileExact ==
    Merged1 =>
        LET pre == last.pre
            src == IF last.op = "exe" THEN memdesc.textseg ELSE memdesc.maps[mi - 1].text_image
        IN  /\ corefile.data =
                   Cat(Cat(TakeBytes(pre.data, last.textOffset), <<Ext(src, 0, last.tlen)>>),
                       Slice(pre.data, last.nextOffset, pre.size))
            /\ corefile.size = last.textOffset + last.tlen + (pre.size - last.nextOffset)
            /\ Overrun(pre.data, last.nextOffset,
                       TailCount(pre.size, last.textOffset, last.nextOffset)) = 0

\* a core's LOAD headers have file offsets that grow strictly with the address
Monotone(phdr) ==
    \A i, j \in DOMAIN phdr :
        (phdr[i].p_type = "PT_LOAD" /\ phdr[j].p_type = "PT_LOAD"
            /\ phdr[i].p_vaddr < phdr[j].p_vaddr) => phdr[i].p_offset < phdr[j].p_offset

\* C3: if the kernel's core has offsets strictly increasing with the address,
\* so has the core after the main merge and after every library merge.
C3_OffsetsStayMonotone ==
    (corefile.elf = "core" /\ Monotone(core0.phdr)) => Monotone(corefile.phdr)

\* C3 witness: two merges have pushed headers of a monotone core
C3_Witness ==
    /\ Monotone(core0.phdr) /\ Merged1 /\ last.op = "lib" /\ last.tlen > PAGE
    /\ last.pre.phdr # core0.phdr
    /\ pc = "merged"

\* what a merge must leave alone in header j
SameButSizeAndOffset(a, b) ==
    /\ a.p_type = b.p_type /\ a.p_vaddr = b.p_vaddr
    /\ a.p_memsz = b.p_memsz /\ a.p_flags = b.p_flags

LoadSegments(phdr) ==
    {[p_vaddr |-> phdr[i].p_vaddr, p_memsz |-> phdr[i].p_memsz, p_flags |-> phdr[i].p_flags] :
        i \in {j \in DOMAIN phdr : phdr[j].p_type = "PT_LOAD"}}

\* C5: a merge changes only p_filesz of the merged header and p_offset of
\* later headers; e_phnum and every p_type, p_vaddr, p_memsz, p_flags stay
\* those of the kernel's core, so the LOAD segments are the same.
C5_MergeFrame ==
    /\ Merged1 =>
          /\ Len(corefile.phdr) = Len(last.pre.phdr)
          /\ \A j \in DOMAIN last.pre.phdr :
                 /\ SameButSizeAndOffset(corefile.phdr[j], last.pre.phdr[j])
                 /\ j # last.idx => corefile.phdr[j].p_filesz = last.pre.phdr[j].p_filesz
                 /\ j <= last.idx => corefile.phdr[j].p_offset = last.pre.phdr[j].p_offset
    /\ corefile.elf = "core" =>
          /\ Len(corefile.phdr) = Len(core0.phdr)
          /\ \A j \in DOMAIN core0.phdr : SameButSizeAndOffset(corefile.phdr[j], core0.phdr[j])
          /\ LoadSegments(corefile.phdr) = LoadSegments(core0.phdr)

\* C5 witness: merges have changed sizes and offsets of a core with p_filesz < p_memsz
C5_Witness ==
    /\ pc = "merged" /\ Merged1
    /\ \E j \in DOMAIN core0.phdr :
          /\ core0.phdr[j].p_filesz < core0.phdr[j].p_memsz
          /\ corefile.phdr[j].p_filesz = corefile.phdr[j].p_memsz
    /\ \E j \in DOMAIN core0.phdr : corefile.phdr[j].p_offset > core0.phdr[j].p_offset

-----------------------------------------------------------------------------
(* The conversion of a merged core into the output format: the inputs.     *)

(* Bounds *)
MaxThreads == 2      \* threads of the process
MaxFuncs == 2        \* functions recovered from .eh_frame
MaxDynSyms == 2      \* dynamic symbols of the executable
MaxExePages == 16    \* pages of the text of a large executable

(* Sizes of the structures the output is made of (x86_64) *)
SHDR_SZ == 64            \* sizeof(ElfW(Shdr))
SYM_SZ == 24             \* sizeof(ElfW(Sym))
ADDR_SZ == 8             \* sizeof(ElfW(Addr))
PRSTATUS_SZ == 336       \* sizeof(struct elf_prstatus)
SIGINFO_SZ == 128        \* sizeof(siginfo_t)
ELF_STAT_SZ == 4         \* sizeof(elf_stat_t)
ELF_PRARGSZ == 80
FDINFO_SZ == 544         \* sizeof(fd_info_t)
UNKNOWN_SHDR_SIZE == 64

\* The original executable: where its parts lie, relative to its base.
Lay == [interp_at |-> 568, interp_len |-> 28,
        hash_at |-> 664, hash_len |-> 36,
        dynsym_at |-> 704, strsz |-> 120,
        rela_at |-> 1200, rela_len |-> 48,
        jmprel_at |-> 1248,
        init_at |-> 1400, init_len |-> 26,
        plt_at |-> 1440, text_at |-> 1536,
        fini_at |-> 1900, fini_len |-> 9,
        ehhdr_len |-> 52, ehframe_len |-> 244,
        data_at |-> 3600, data_filesz |-> 400, data_memsz |-> 464,
        dyn_at |-> 3624, dyn_len |-> 320, got_at |-> 3952]

ExeKinds == {"exec", "pie", "pie_split"}
ShdrKinds == {"kept", "zeroed", "count0"}

\* the address the executable is linked at
LinkBase(kind) == IF kind = "exec" THEN SegVaddr(1) ELSE 0

Phdr(type, flags, off, vaddr, len, memsz) ==
    [p_type |-> type, p_flags |-> flags, p_offset |-> off, p_vaddr |-> vaddr,
     p_filesz |-> len, p_memsz |-> memsz]

\* the program headers of the executable file; .eh_frame_hdr lies at eh,
\* behind the code
ExePhdrs(kind, dyn, pages, eh) ==
    LET lb  == LinkBase(kind)
        tsz == pages * PAGE
    IN  (IF dyn THEN <<Phdr("PT_INTERP", PF_R, Lay.interp_at, lb + Lay.interp_at,
                            Lay.interp_len, Lay.interp_len)>> ELSE <<>>)
        \o (IF kind = "pie_split"
            THEN <<Phdr("PT_LOAD", PF_R, 0, lb, PAGE, PAGE),
                   Phdr("PT_LOAD", PF_R + PF_X, PAGE, lb + PAGE, tsz - PAGE, tsz - PAGE)>>
            ELSE <<Phdr("PT_LOAD", PF_R + PF_X, 0, lb, tsz, tsz)>>)
        \o <<Phdr("PT_LOAD", PF_R + PF_W, tsz - PAGE + Lay.data_at,
                  lb + VSTRIDE + Lay.data_at, Lay.data_filesz, Lay.data_memsz)>>
        \o (IF dyn THEN <<Phdr("PT_DYNAMIC", PF_R + PF_W, tsz - PAGE + Lay.dyn_at,
                               lb + VSTRIDE + Lay.dyn_at, Lay.dyn_len, Lay.dyn_len),
                          Phdr("PT_GNU_EH_FRAME", PF_R, eh, lb + eh,
                               Lay.ehhdr_len, Lay.ehhdr_len)>>
            ELSE <<>>)

\* the section headers of the executable file that the program asks for
ExeShdrs(kind, dyn, eh, nsyms) ==
    LET lb == LinkBase(kind)
        S(a, z) == [sh_addr |-> a, sh_size |-> z]
        both == [n \in {".eh_frame"} |->
                    S(lb + eh + (IF dyn THEN Lay.ehhdr_len + 4 ELSE 0), Lay.ehframe_len)]
        dynamic ==
            [n \in {".gnu.hash", ".rela.dyn", ".rela.plt", ".init", ".fini",
                    ".got.plt", ".plt"} |->
               CASE n = ".gnu.hash" -> S(lb + Lay.hash_at, Lay.hash_len)
                 [] n = ".rela.dyn" -> S(lb + Lay.rela_at, Lay.rela_len)
                 [] n = ".rela.plt" -> S(lb + Lay.jmprel_at, SYM_SZ * nsyms)
                 [] n = ".init"     -> S(lb + Lay.init_at, Lay.init_len)
                 [] n = ".fini"     -> S(lb + Lay.fini_at, Lay.fini_len)
                 [] n = ".got.plt"  -> S(lb + VSTRIDE + Lay.got_at, (nsyms + 3) * ADDR_SZ)
                 [] OTHER           -> S(lb + Lay.plt_at, 16 * (nsyms + 1))]
    IN  IF dyn THEN both @@ dynamic ELSE both

\* The dynamic array as the process holds it: the loader has relocated the
\* table addresses, INIT and FINI are as in the file.
DynTags(kind, nsyms) ==
    LET tb == SegVaddr(1)
        lb == LinkBase(kind)
        T(t, v) == [d_tag |-> t, d_val |-> v]
    IN  <<T("DT_INIT", lb + Lay.init_at), T("DT_FINI", lb + Lay.fini_at),
          T("DT_GNU_HASH", tb + Lay.hash_at),
          T("DT_STRTAB", tb + Lay.dynsym_at + SYM_SZ * nsyms),
          T("DT_SYMTAB", tb + Lay.dynsym_at), T("DT_STRSZ", Lay.strsz),
          T("DT_PLTGOT", tb + VSTRIDE + Lay.got_at),
          T("DT_PLTRELSZ", SYM_SZ * nsyms), T("DT_JMPREL", tb + Lay.jmprel_at),
          T("DT_RELA", tb + Lay.rela_at)>>

\* the function table that the .eh_frame parser hands over
AllFuncs == [i \in 1..(MaxFuncs + 1) |->
               [addr |-> SegVaddr(1) + Lay.text_at + 170 * i, size |-> 40 + i]]

\* the executable file, and the other inputs of a run
OrigExe(kind, dyn, shk, pages, nsyms, nfn, ehzero, heur) ==
    LET eh == pages * PAGE - 1024 IN
    [e_type |-> IF kind = "exec" THEN "ET_EXEC" ELSE "ET_DYN",
     e_shnum |-> IF shk = "kept" THEN 29 ELSE 0,
     e_shoff |-> IF shk = "zeroed" THEN 0 ELSE (pages + 1) * PAGE,
     e_shstrndx |-> IF shk = "kept" THEN 28 ELSE 0,
     phdr |-> ExePhdrs(kind, dyn, pages, eh),
     shdr |-> ExeShdrs(kind, dyn, eh, nsyms),
     dyntags |-> IF dyn THEN DynTags(kind, nsyms) ELSE <<>>,
     fndata |-> SubSeq(AllFuncs, 1, nfn),
     ehzero |-> ehzero,
     heuristics |-> heur]

\* the NT_FILE note: one entry per file-backed mapping (all but the stack)
NtFiles(L, tp) ==
    [k \in 1..(NSegs(L) - 1) |->
        [addr |-> SegVaddr(k), size |-> SegMemsz(k, L, tp),
         name |-> IF SegLib(k) = 0 THEN "prog" ELSE LibNames[SegLib(k)]]]

-----------------------------------------------------------------------------
(* The conversion: what is read off the original executable and the core.  *)
(* 64-bit words are kept as integers; a negative integer v stands for the  *)
(* unsigned word 2^64 + v.                                                  *)

\* get_original_shdr_size: -1 without a section header table, 0 when the
\* section is not there
get_original_shdr_size(x, name) ==
    IF x.e_shstrndx = 0 \/ x.e_shnum = 0 THEN -1
    ELSE IF name \in DOMAIN x.shdr THEN x.shdr[name].sh_size ELSE 0

get_original_shdr_addr(x, name) ==
    IF x.e_shstrndx = 0 \/ x.e_shnum = 0 THEN -1
    ELSE IF name \in DOMAIN x.shdr THEN x.shdr[name].sh_addr ELSE 0

\* pull_unknown_shdr_sizes and pull_unknown_shdr_addrs
fill_global_hacks(x) ==
    [stripped |-> 0, eh_frame_offset_workaround |-> 0,
     hash_size |-> get_original_shdr_size(x, ".gnu.hash"),
     rela_size |-> get_original_shdr_size(x, ".rela.dyn"),
     plt_rela_size |-> get_original_shdr_size(x, ".rela.plt"),
     init_size |-> get_original_shdr_size(x, ".init"),
     fini_size |-> get_original_shdr_size(x, ".fini"),
     got_size |-> get_original_shdr_size(x, ".got.plt"),
     plt_size |-> get_original_shdr_size(x, ".plt"),
     ehframe_size |-> get_original_shdr_size(x, ".eh_frame"),
     plt_vaddr |-> get_original_shdr_addr(x, ".plt"),
     ehframe_vaddr |-> get_original_shdr_addr(x, ".eh_frame")]

check_for_stripped_shdr(x) == IF x.e_shnum = 0 \/ x.e_shoff = 0 THEN 1 ELSE 0

check_for_pie(x) ==
    IF \E i \in 1..Len(x.phdr) :
          /\ x.phdr[i].p_type = "PT_LOAD"
          /\ HasFlag(x.phdr[i].p_flags, PF_X)
          /\ x.phdr[i].p_vaddr = 0
    THEN 1 ELSE 0

\* load_core_file: the descriptor of a mapped core, every other field zero
ElfdescFields == {"dynlinked", "pie", "textVaddr", "textSize", "textOffset",
                  "dataVaddr", "dataSize", "dataOffset", "o_datafsize",
                  "bssVaddr", "bssSize", "bssOffset", "dynVaddr", "dynSize",
                  "dynOffset", "ehframe_Vaddr", "ehframe_Size", "ehframeOffset",
                  "interpVaddr", "interpSize", "interpOffset",
                  "noteVaddr", "noteSize", "noteOffset"}

NotePhdrs(phdr) == {i \in 1..Len(phdr) : phdr[i].p_type = "PT_NOTE"}

MinOf(S) == CHOOSE m \in S : \A n \in S : m <= n

load_core_file(core) ==
    IF core.elf # "core" THEN [f \in {} |-> 0]
    ELSE [f \in ElfdescFields |->
            IF f = "noteSize" /\ NotePhdrs(core.phdr) # {}
            THEN core.phdr[MinOf(NotePhdrs(core.phdr))].p_filesz ELSE 0]

\* the NT_FILE entries of the executable, and those followed by another one
ExeEntries(nt, comm) == {i \in 1..Len(nt) : nt[i].name = comm}
ExePairs(nt, comm) ==
    {i \in 1..(Len(nt) - 1) : nt[i].name = comm /\ nt[i + 1].name = comm}

lookup_text_base(nt, comm) ==
    IF ExeEntries(nt, comm) = {} THEN 0 ELSE nt[MinOf(ExeEntries(nt, comm))].addr
lookup_text_size(nt, comm) ==
    IF ExeEntries(nt, comm) = {} THEN 0 ELSE nt[MinOf(ExeEntries(nt, comm))].size
lookup_data_base(nt, comm) ==
    IF ExePairs(nt, comm) = {} THEN 0 ELSE nt[MinOf(ExePairs(nt, comm)) + 1].addr
lookup_data_size(nt, comm) ==
    IF ExePairs(nt, comm) = {} THEN 0 ELSE nt[MinOf(ExePairs(nt, comm)) + 1].size

\* (mutant) the flag is taken from the test for an executable LOAD at 0
PieByLoadAtZero(x, ed) == ed.pie + check_for_pie(x)

\* "if (ehdr->e_type == ET_DYN) memdesc->pie = ++elfdesc->pie"
PieOf(x, ed) == IF x.e_type = "ET_DYN" THEN ed.pie + 1 ELSE ed.pie

\* one case of the switch of parse_orig_phdrs
ParseStep(ed, h, text_base, nt, comm) ==
    CASE h.p_type = "PT_LOAD" ->
           IF h.p_offset # 0
           THEN [ed EXCEPT !.dataVaddr = lookup_data_base(nt, comm),
                           !.dataSize = lookup_data_size(nt, comm),
                           !.bssSize = h.p_memsz - h.p_filesz,
                           !.o_datafsize = h.p_filesz,
                           !.bssVaddr = IF ed.pie = 0 THEN h.p_vaddr + h.p_filesz ELSE @]
           ELSE [ed EXCEPT !.textVaddr = text_base,
                           !.textSize = lookup_text_size(nt, comm)]
      [] h.p_type = "PT_DYNAMIC" ->
           [ed EXCEPT !.dynVaddr = h.p_vaddr + (IF ed.pie # 0 THEN text_base ELSE 0),
                      !.dynSize = h.p_memsz]
      [] h.p_type = "PT_GNU_EH_FRAME" ->
           [ed EXCEPT !.ehframe_Vaddr = h.p_vaddr + (IF ed.pie # 0 THEN text_base ELSE 0),
                      !.ehframe_Size = h.p_memsz]
      [] h.p_type = "PT_INTERP" ->
           [ed EXCEPT !.dynlinked = @ + 1,
                      !.interpVaddr = h.p_vaddr,
                      !.interpSize = IF h.p_memsz # 0 THEN h.p_memsz ELSE h.p_filesz]
      [] OTHER -> ed

RECURSIVE ParseWalk(_, _, _, _, _, _)
ParseWalk(ed, ph, i, text_base, nt, comm) ==
    IF i > Len(ph) THEN ed
    ELSE ParseWalk(ParseStep(ed, ph[i], text_base, nt, comm), ph, i + 1,
                   text_base, nt, comm)

parse_orig_phdrs(ed, md, nt, x) ==
    IF md.text.base = 0 THEN [ret |-> -1, elfdesc |-> ed]
    ELSE [ret |-> 0,
          elfdesc |-> ParseWalk([ed EXCEPT !.pie = PieOf(x, ed)], x.phdr, 1,
                                lookup_text_base(nt, md.exe_comm), nt, md.exe_comm)]

\* strstr(p, ".so")
IsSoName(name) == \E i \in 1..Len(LibNames) : LibNames[i] = name

get_mapping_flags(addr, maps) ==
    IF \E i \in 1..Len(maps) : maps[i].base = addr
    THEN maps[MinOf({i \in 1..Len(maps) : maps[i].base = addr})].p_flags
    ELSE -1

get_mapping_offset(addr, phdr) ==
    IF \E i \in 1..Len(phdr) : phdr[i].p_vaddr = addr
    THEN phdr[MinOf({i \in 1..Len(phdr) : phdr[i].p_vaddr = addr})].p_offset
    ELSE 0

RECURSIVE lookup_lib_maps(_, _, _, _)
lookup_lib_maps(nt, i, maps, phdr) ==
    IF i > Len(nt) THEN <<>>
    ELSE (IF IsSoName(nt[i].name)
          THEN <<[name |-> nt[i].name, addr |-> nt[i].addr, size |-> nt[i].size,
                  flags |-> get_mapping_flags(nt[i].addr, maps),
                  offset |-> get_mapping_offset(nt[i].addr, phdr),
                  injected |-> FALSE]>>
          ELSE <<>>) \o lookup_lib_maps(nt, i + 1, maps, phdr)

\* "v >= p_vaddr && v < p_vaddr + p_memsz"
Contains(h, v) == v >= h.p_vaddr /\ v < h.p_vaddr + h.p_memsz

\* the tests of one iteration of the loop of xref_phdrs_for_offsets
XrefNote(ed, h) ==
    IF h.p_type = "PT_NOTE"
    THEN [ed EXCEPT !.noteOffset = h.p_offset, !.noteVaddr = h.p_vaddr] ELSE ed

XrefInterp(ed, h) ==
    IF Contains(h, ed.interpVaddr)
    THEN [ed EXCEPT !.interpOffset = h.p_offset + ed.interpVaddr - h.p_vaddr] ELSE ed

XrefDynamic(ed, h) ==
    IF Contains(h, ed.dynVaddr)
    THEN [ed EXCEPT !.dynOffset = h.p_offset + ed.dynVaddr - h.p_vaddr] ELSE ed

XrefEhFrame(ed, h, ehv) ==
    IF Contains(h, ehv)
    THEN [ed EXCEPT !.ehframeOffset = h.p_offset + ehv - h.p_vaddr] ELSE ed

XrefText(ed, h) ==
    IF ed.textVaddr = h.p_vaddr
    THEN [ed EXCEPT !.textOffset = h.p_offset, !.textSize = h.p_memsz] ELSE ed

XrefData(ed, h, bv) ==
    IF ed.dataVaddr = h.p_vaddr
    THEN [ed EXCEPT !.dataOffset = h.p_offset, !.bssVaddr = bv,
                    !.bssOffset = h.p_offset + bv - ed.dataVaddr]
    ELSE ed

XrefBss(ed, h) ==
    XrefData(ed, h, IF ed.pie # 0 THEN ed.dataVaddr + ed.o_datafsize ELSE ed.bssVaddr)

\* one iteration of the loop of xref_phdrs_for_offsets
XrefStep(ed, h, hacks) ==
    XrefBss(XrefText(XrefEhFrame(XrefDynamic(XrefInterp(XrefNote(ed, h), h), h), h,
                                 IF ed.dynlinked # 0 THEN ed.ehframe_Vaddr
                                                     ELSE hacks.ehframe_vaddr), h), h)

RECURSIVE xref_phdrs_for_offsets(_, _, _, _)
xref_phdrs_for_offsets(ed, phdr, i, hacks) ==
    IF i > Len(phdr) THEN ed
    ELSE xref_phdrs_for_offsets(XrefStep(ed, phdr[i], hacks), phdr, i + 1, hacks)

SmetaFields == {"hashVaddr", "hashOff", "dsymVaddr", "dsymOff", "dstrVaddr",
                "dstrOff", "strSiz", "relaVaddr", "relaOff", "plt_relaVaddr",
                "plt_relaOff", "pltSiz", "initVaddr", "initOff", "finiVaddr",
                "finiOff", "gotVaddr", "gotOff"}

\* one case of the switch of extract_dyntag_info
DynStep(sm, t, ed, md) ==
    LET InText(v) == ed.textOffset + v - ed.textVaddr
        rebased == t.d_val + (IF md.pie # 0 THEN ed.textVaddr ELSE 0)
    IN CASE t.d_tag = "DT_RELA" ->
              [sm EXCEPT !.relaVaddr = t.d_val, !.relaOff = InText(t.d_val)]
         [] t.d_tag = "DT_JMPREL" ->
              [sm EXCEPT !.plt_relaVaddr = t.d_val, !.plt_relaOff = InText(t.d_val)]
         [] t.d_tag = "DT_PLTGOT" ->
              [sm EXCEPT !.gotVaddr = t.d_val,
                         !.gotOff = t.d_val - ed.dataVaddr + ed.dataOffset]
         [] t.d_tag = "DT_GNU_HASH" ->
              [sm EXCEPT !.hashVaddr = t.d_val, !.hashOff = InText(t.d_val)]
         [] t.d_tag = "DT_INIT" ->
              [sm EXCEPT !.initVaddr = rebased, !.initOff = InText(rebased)]
         [] t.d_tag = "DT_FINI" ->
              [sm EXCEPT !.finiVaddr = rebased, !.finiOff = InText(rebased)]
         [] t.d_tag = "DT_STRSZ" -> [sm EXCEPT !.strSiz = t.d_val]
         [] t.d_tag = "DT_PLTRELSZ" -> [sm EXCEPT !.pltSiz = t.d_val]
         [] t.d_tag = "DT_SYMTAB" ->
              [sm EXCEPT !.dsymVaddr = t.d_val, !.dsymOff = InText(t.d_val)]
         [] t.d_tag = "DT_STRTAB" ->
              [sm EXCEPT !.dstrVaddr = t.d_val, !.dstrOff = InText(t.d_val)]
         [] OTHER -> sm

RECURSIVE DynWalk(_, _, _, _, _)
DynWalk(sm, tags, j, ed, md) ==
    IF j > Len(tags) THEN sm
    ELSE DynWalk(DynStep(sm, tags[j], ed, md), tags, j + 1, ed, md)

\* where the dynamic array of the executable lies in the core
DynArrayAt(core) == get_mapping_offset(SegVaddr(2), core.phdr) + Lay.dyn_at

\* extract_dyntag_info: -1 when no header starts at dataVaddr; the array is
\* read where dynVaddr says it is
extract_dyntag_info(ed, md, core, x, smeta) ==
    LET at == {i \in 1..Len(core.phdr) : core.phdr[i].p_vaddr = ed.dataVaddr} IN
    IF at = {} THEN [ret |-> -1, smeta |-> smeta]
    ELSE LET off  == core.phdr[MinOf(at)].p_offset + (ed.dynVaddr - ed.dataVaddr)
             tags == IF off = DynArrayAt(core) THEN x.dyntags ELSE <<>>
         IN  [ret |-> 0, smeta |-> DynWalk(smeta, tags, 1, ed, md)]

\* get_internal_sh_offset for HEAP, STACK, VDSO and VSYSCALL
get_internal_sh_offset(phdr, maps, type) ==
    LET hit == {p \in (1..Len(maps)) \X (1..Len(phdr)) :
                  /\ maps[p[1]][type]
                  /\ IF type = "stack"
                     THEN Contains(phdr[p[2]], maps[p[1]].base)
                     ELSE phdr[p[2]].p_vaddr = maps[p[1]].base}
        first == CHOOSE p \in hit : \A q \in hit :
                    p[1] < q[1] \/ (p[1] = q[1] /\ p[2] <= q[2])
    IN  IF hit = {} THEN 0 ELSE phdr[first[2]].p_offset

-----------------------------------------------------------------------------
(* build_section_headers.  A string table is the sequence of its strings,  *)
(* each followed by a NUL byte; section i of the code is shdr[i + 1].       *)

\* strcpy(&StringTable[stoffset], name); stoffset += strlen(name) + 1
AddSection(b, name, type, off, addr, size, link) ==
    [b EXCEPT !.shdr = Append(@, [sh_name |-> b.stoffset, sh_type |-> type,
                                  sh_offset |-> off, sh_addr |-> addr,
                                  sh_size |-> size, sh_link |-> link]),
              !.strs = Append(@, name),
              !.stoffset = @ + Len(name) + 1]

\* "hacks size <= 0 ? UNKNOWN_SHDR_SIZE : hacks size"
Fallback(size) == IF size <= 0 THEN UNKNOWN_SHDR_SIZE ELSE size

\* "((x + 16) & ~15) - x"
PltGap(x) == ((x + 16) \div 16) * 16 - x

\* sh_offset of .plt: behind .init, moved on by the gap
PltOffset(sm, hacks) ==
    sm.initOff + Fallback(hacks.init_size)
      + PltGap(sm.initVaddr + Fallback(hacks.init_size))

\* .dynsym and the sections after it, up to .plt; dynsym_index is the
\* index of .dynsym
DynamicTail(b, sm, hacks, dynsym_index) ==
    AddSection(
      AddSection(
        AddSection(
          AddSection(
            AddSection(
              AddSection(b, ".dynsym", "SHT_DYNSYM", sm.dsymOff, sm.dsymVaddr,
                         sm.dstrOff - sm.dsymOff, dynsym_index + 1),
              ".dynstr", "SHT_STRTAB", sm.dstrOff, sm.dstrVaddr, sm.strSiz, 0),
            ".rela.dyn", "SHT_RELA", sm.relaOff, sm.relaVaddr,
            Fallback(hacks.rela_size), dynsym_index),
          ".rela.plt", "SHT_RELA", sm.plt_relaOff, sm.plt_relaVaddr,
          Fallback(hacks.plt_rela_size), dynsym_index),
        ".init", "SHT_PROGBITS", sm.initOff, sm.initVaddr, Fallback(hacks.init_size), 0),
      ".plt", "SHT_PROGBITS",
      PltOffset(sm, hacks),
      hacks.plt_vaddr, Fallback(hacks.plt_size), 0)

\* the sections before .text of a dynamically linked executable
DynamicHead(b, ed, sm, hacks) ==
    DynamicTail(AddSection(b, ".hash", "SHT_GNU_HASH", sm.hashOff, sm.hashVaddr,
                           Fallback(hacks.hash_size), 0),
                sm, hacks, Len(b.shdr) + 1)

\* the name of the section of a library mapping
LibSectionName(lib, data_count) ==
    CASE lib.flags = PF_R + PF_X -> lib.name \o ".text"
      [] lib.flags = PF_R + PF_W -> lib.name \o ".data." \o ToString(data_count)
      [] lib.flags = PF_R        -> lib.name \o ".relro"
      [] OTHER                   -> lib.name \o ".undef"

\* (mutant) the counter of data mappings starts again with every library
RECURSIVE LibSectionsPerLib(_, _, _, _)
LibSectionsPerLib(b, libs, i, data_count) ==
    IF i > Len(libs) THEN b
    ELSE LibSectionsPerLib(
           AddSection(b, LibSectionName(libs[i], data_count),
                      IF libs[i].injected THEN "SHT_INJECTED" ELSE "SHT_SHLIB",
                      libs[i].offset, libs[i].addr, libs[i].size, 0),
           libs, i + 1,
           IF i < Len(libs) /\ libs[i + 1].name # libs[i].name THEN 0
           ELSE IF libs[i].flags = PF_R + PF_W THEN data_count + 1 ELSE data_count)

\* the loop over the library mappings; data_count runs on across libraries
RECURSIVE LibSections(_, _, _, _)
LibSections(b, libs, i, data_count) ==
    IF i > Len(libs) THEN b
    ELSE LibSections(AddSection(b, LibSectionName(libs[i], data_count),
                                IF libs[i].injected THEN "SHT_INJECTED" ELSE "SHT_SHLIB",
                                libs[i].offset, libs[i].addr, libs[i].size, 0),
                     libs, i + 1,
                     IF libs[i].flags = PF_R + PF_W THEN data_count + 1 ELSE data_count)

\* .eh_frame: the four bytes at the offset are tested for zero
EhFrameOffset(dynamic, ed, x) ==
    LET off == IF dynamic THEN ed.ehframeOffset + ed.ehframe_Size ELSE ed.ehframeOffset
    IN  IF off # 0 /\ x.ehzero THEN off + 4 ELSE off

EhFrameSize(ed, hacks) ==
    IF hacks.ehframe_size <= 0
    THEN (ed.ehframe_Vaddr + ed.ehframe_Size) - ed.textVaddr
    ELSE hacks.ehframe_size

\* (mutant) .interp is emitted for a static executable too
WithInterpAlways(b, dynamic, ed) ==
    AddSection(b, ".interp", "SHT_PROGBITS", ed.interpOffset, ed.interpVaddr,
               ed.interpSize, 0)

\* the parts of the table that only a dynamically linked executable has
WithInterp(b, dynamic, ed) ==
    IF dynamic
    THEN AddSection(b, ".interp", "SHT_PROGBITS", ed.interpOffset, ed.interpVaddr,
                    ed.interpSize, 0)
    ELSE b

WithDynamicHead(b, dynamic, ed, sm, hacks) ==
    IF dynamic THEN DynamicHead(b, ed, sm, hacks) ELSE b

WithFiniAndEhFrameHdr(b, dynamic, ed, sm, hacks) ==
    IF dynamic
    THEN AddSection(
           AddSection(b, ".fini", "SHT_PROGBITS", sm.finiOff, sm.finiVaddr,
                      Fallback(hacks.fini_size), 0),
           ".eh_frame_hdr", "SHT_PROGBITS", ed.ehframeOffset,
           ed.ehframe_Vaddr, ed.ehframe_Size, 0)
    ELSE b

WithDynamicAndGot(b, dynamic, ed, sm, hacks) ==
    IF dynamic
    THEN AddSection(
           AddSection(b, ".dynamic", "SHT_DYNAMIC", ed.dynOffset, ed.dynVaddr,
                      ed.dynSize, 0),
           ".got.plt", "SHT_PROGBITS", sm.gotOff, sm.gotVaddr,
           Fallback(hacks.got_size), 0)
    ELSE b

WithLibs(b, dynamic, nd) == IF dynamic THEN LibSections(b, nd.lm_files, 1, 0) ELSE b

\* "text_shdr_index = scount" and .text
WithText(b, ed) ==
    AddSection([b EXCEPT !.text_shdr_index = Len(b.shdr)],
               ".text", "SHT_PROGBITS", ed.textOffset, ed.textVaddr, ed.textSize, 0)

\* .symtab (linked to the section after it), .strtab and .shstrtab
WithSymtab(b) ==
    AddSection(AddSection(b, ".symtab", "SHT_SYMTAB", 0, 0, 0, Len(b.shdr) + 1),
               ".strtab", "SHT_STRTAB", 0, 0, 0, 0)

WithShstrtab(b, e_shoff) ==
    AddSection(b, ".shstrtab", "SHT_STRTAB", e_shoff + SHDR_SZ * (Len(b.shdr) + 1), 0,
               b.stoffset + Len(".shstrtab") + 1, 0)

\* the section headers and the string table, in the order of the code;
\* e_shoff is the position of the file descriptor on entry
SectionTable(e_shoff, dynamic, ed, sm, hacks, md, nd, ef, core, x) ==
    LET b0  == AddSection([shdr |-> <<>>, strs |-> <<>>, stoffset |-> 0,
                           text_shdr_index |-> 0],
                          "", "SHT_NULL", 0, 0, 0, 0)
        b1  == WithInterp(b0, dynamic, ed)
        b2  == AddSection(b1, ".note", "SHT_NOTE", ed.noteOffset, ed.noteVaddr,
                          ed.noteSize, 0)
        b3  == WithDynamicHead(b2, dynamic, ed, sm, hacks)
        b4  == WithText(b3, ed)
        b5  == WithFiniAndEhFrameHdr(b4, dynamic, ed, sm, hacks)
        b6  == AddSection(b5, ".eh_frame", "SHT_PROGBITS",
                          EhFrameOffset(dynamic, ed, x),
                          IF dynamic THEN ed.ehframe_Vaddr + ed.ehframe_Size
                                     ELSE hacks.ehframe_vaddr,
                          EhFrameSize(ed, hacks), 0)
        b7  == WithDynamicAndGot(b6, dynamic, ed, sm, hacks)
        b8  == AddSection(b7, ".data", "SHT_PROGBITS", ed.dataOffset, ed.dataVaddr,
                          ed.dataSize, 0)
        b9  == AddSection(b8, ".bss", "SHT_PROGBITS", ed.bssOffset, ed.bssVaddr,
                          ed.bssSize, 0)
        b10 == AddSection(b9, ".heap", "SHT_PROGBITS",
                          get_internal_sh_offset(core.phdr, md.maps, "heap"),
                          md.heap.base, md.heap.size, 0)
        b11 == WithLibs(b10, dynamic, nd)
        b12 == AddSection(b11, ".prstatus", "SHT_PROGBITS", ef.prstatus_offset, 0,
                          ef.prstatus_size, 0)
        b13 == AddSection(b12, ".fdinfo", "SHT_PROGBITS", ef.fdinfo_offset, 0,
                          ef.fdinfo_size, 0)
        b14 == AddSection(b13, ".siginfo", "SHT_PROGBITS", ef.siginfo_offset, 0,
                          ef.siginfo_size, 0)
        b15 == AddSection(b14, ".auxvector", "SHT_PROGBITS", ef.auxv_offset, 0,
                          ef.auxv_size, 0)
        b16 == AddSection(b15, ".exepath", "SHT_PROGBITS", ef.exepath_offset, 0,
                          ef.exepath_size, 0)
        b17 == AddSection(b16, ".personality", "SHT_PROGBITS", ef.personality_offset,
                          0, ef.personality_size, 0)
        b18 == AddSection(b17, ".arglist", "SHT_PROGBITS", ef.arglist_offset, 0,
                          ef.arglist_size, 0)
        b19 == AddSection(b18, ".stack", "SHT_PROGBITS",
                          get_internal_sh_offset(core.phdr, md.maps, "stack"),
                          md.stack.base, md.stack.size, 0)
        b20 == AddSection(b19, ".vdso", "SHT_PROGBITS",
                          get_internal_sh_offset(core.phdr, md.maps, "vdso"),
                          md.vdso.base, md.vdso.size, 0)
        b21 == AddSection(b20, ".vsyscall", "SHT_PROGBITS",
                          get_internal_sh_offset(core.phdr, md.maps, "vsyscall"),
                          md.vsyscall.base, md.vsyscall.size, 0)
    IN  WithShstrtab(WithSymtab(b21), e_shoff)

-----------------------------------------------------------------------------
(* core2ecfs and build_local_symtab_and_finalize: the output file.         *)
(* The output keeps, next to its bytes, what the bytes of its ELF header,  *)
(* section header table and tables of strings and symbols say.             *)

STB_GLOBAL == 1
STT_FUNC == 2

\* where the fields that are patched lie in the ELF header
EhdrField == [e_type      |-> [at |-> 16, len |-> 2],
              e_entry     |-> [at |-> 24, len |-> 8],
              e_shoff     |-> [at |-> 40, len |-> 8],
              e_shentsize |-> [at |-> 58, len |-> 2],
              e_shnum     |-> [at |-> 60, len |-> 2],
              e_shstrndx  |-> [at |-> 62, len |-> 2]]

\* the ELF header of a core file, as far as the conversion changes it
CoreEhdr == [e_type |-> "ET_CORE", e_entry |-> 0, e_shoff |-> 0,
             e_shentsize |-> 0, e_shnum |-> 0, e_shstrndx |-> 0]

\* the bytes [at, at + len) of data are overwritten with bytes of src
PatchBytes(data, at, len, src) ==
    Cat(Cat(TakeBytes(data, at), <<Ext(src, 0, len)>>), DropBytes(data, at + len))

\* (mutant) the store is one byte wider than the field
SetEhdrWide(out, field, value) ==
    [out EXCEPT !.ehdr[field] = value,
                !.data = PatchBytes(@, EhdrField[field].at, EhdrField[field].len + 1, field)]

\* "ehdr->field = value" through the shared mapping of the output
SetEhdr(out, field, value) ==
    [out EXCEPT !.ehdr[field] = value,
                !.data = PatchBytes(@, EhdrField[field].at, EhdrField[field].len, field)]

\* write(fd, buf, len) at the end of the file
WriteOut(out, src, len) == [out EXCEPT !.data = AppendExt(@, Ext(src, 0, len))]

\* the offsets and sizes that core2ecfs records before it writes anything
EcfsOffsets(st_size, nd, md) ==
    LET prstatus_size == nd.thread_count * PRSTATUS_SZ
        fdinfo_offset == st_size + nd.thread_count * PRSTATUS_SZ
        siginfo_offset == fdinfo_offset + md.fdinfo_size
        auxv_offset == siginfo_offset + SIGINFO_SZ
        exepath_offset == auxv_offset + nd.auxv_size
        personality_offset == exepath_offset + Len(md.exe_path) + 1
        arglist_offset == personality_offset + ELF_STAT_SZ
    IN  [prstatus_offset |-> st_size, prstatus_size |-> prstatus_size,
         fdinfo_offset |-> fdinfo_offset, fdinfo_size |-> md.fdinfo_size,
         siginfo_offset |-> siginfo_offset, siginfo_size |-> SIGINFO_SZ,
         auxv_offset |-> auxv_offset, auxv_size |-> nd.auxv_size,
         exepath_offset |-> exepath_offset, exepath_size |-> Len(md.exe_path) + 1,
         personality_offset |-> personality_offset, personality_size |-> ELF_STAT_SZ,
         arglist_offset |-> arglist_offset, arglist_size |-> ELF_PRARGSZ,
         stb_offset |-> arglist_offset + ELF_PRARGSZ]

build_elf_stats(ed, hacks, x) ==
    (IF ed.dynlinked = 0 THEN {"ELF_STATIC"} ELSE {})
    \cup (IF ed.pie # 0 THEN {"ELF_PIE"} ELSE {})
    \cup (IF x.heuristics THEN {"ELF_HEURISTICS"} ELSE {})
    \cup (IF hacks.stripped # 0 THEN {"ELF_STRIPPED_SHDRS"} ELSE {})

\* the writes of core2ecfs up to the call of build_section_headers: the core,
\* one prstatus per thread after the first, and the other payloads
WriteBody(core, nd, md, personality) ==
    LET o0 == [data |-> core.data, ehdr |-> CoreEhdr, phdr |-> core.phdr,
               personality |-> personality]
        o1 == WriteOut(o0, "prstatus", PRSTATUS_SZ)
        o2 == WriteOut(o1, "prstatus", (nd.thread_count - 1) * PRSTATUS_SZ)
        o3 == WriteOut(o2, "fdinfo", md.fdinfo_size)
        o4 == IF nd.siginfo THEN WriteOut(o3, "siginfo", SIGINFO_SZ) ELSE o3
        o5 == WriteOut(o4, "auxv", nd.auxv_size)
        o6 == WriteOut(o5, "exepath", Len(md.exe_path) + 1)
        o7 == WriteOut(o6, "personality", ELF_STAT_SZ)
    IN  WriteOut(o7, "arglist", ELF_PRARGSZ)

\* (mutant) e_shstrndx is the number of sections
ShstrndxOfCount(scount) == scount

\* "int e_shstrndx = scount - 1"
ShstrndxOf(scount) == scount - 1

\* what the output holds once the table t is written at e_shoff
WithTable(w, t, e_shoff) ==
    [data |-> w.data, ehdr |-> w.ehdr, phdr |-> w.phdr, personality |-> w.personality,
     shdr |-> t.shdr, shdr_at |-> e_shoff,
     strs |-> t.strs, strs_at |-> e_shoff + SHDR_SZ * Len(t.shdr)]

\* the writes of the table t and of its strings, and the stores into the
\* ELF header
WriteTable(out, t, e_shoff, scount, md) ==
    LET w1 == WriteOut(out, "shdr", SHDR_SZ * scount)
        w2 == WriteOut(w1, "shstrtab", t.stoffset)
        w3 == WithTable(w2, t, e_shoff)
        h1 == SetEhdr(w3, "e_entry", md.o_entry)
        h2 == SetEhdr(h1, "e_shoff", e_shoff)
        h3 == SetEhdr(h2, "e_shstrndx", ShstrndxOf(scount))
        h4 == SetEhdr(h3, "e_shentsize", SHDR_SZ)
        h5 == SetEhdr(h4, "e_shnum", scount)
    IN  [out |-> SetEhdr(h5, "e_type", "ET_NONE"), scount |-> scount,
         text_shdr_index |-> t.text_shdr_index]

SectionsWritten(out, t, md) == WriteTable(out, t, Size(out.data), Len(t.shdr), md)

\* build_section_headers: the table and the string table are written at the
\* file position, then the ELF header is patched; returns scount
build_section_headers(out, dynamic, ed, sm, hacks, md, nd, ef, core, x) ==
    SectionsWritten(out,
                    SectionTable(Size(out.data), dynamic, ed, sm, hacks, md, nd, ef, core, x),
                    md)

\* the string that starts at byte off of a table of strings
RECURSIVE StrAt(_, _)
StrAt(strs, off) ==
    IF strs = <<>> \/ off < 0 THEN "<outside>"
    ELSE IF off = 0 THEN Head(strs)
    ELSE IF off <= Len(Head(strs)) THEN "<suffix>"
    ELSE StrAt(Tail(strs), off - Len(Head(strs)) - 1)

HexDigits == <<"0", "1", "2", "3", "4", "5", "6", "7",
               "8", "9", "a", "b", "c", "d", "e", "f">>

\* "%lx"
RECURSIVE ToHex(_)
ToHex(n) == IF n < 16 THEN HexDigits[n + 1]
            ELSE ToHex(n \div 16) \o HexDigits[(n % 16) + 1]

\* (mutant) every symbol is named after the start of .text
SymNameOfText(fn) == "sub_" \o ToHex(SegVaddr(1))

\* xfmtstrdup("sub_%lx", fdp[i].addr)
SymName(fn) == "sub_" \o ToHex(fn.addr)

\* the loop that fills symtab and strtab
RECURSIVE SymWalk(_, _, _, _)
SymWalk(acc, fns, i, text_index) ==
    IF i > Len(fns) THEN acc
    ELSE SymWalk([syms |-> Append(acc.syms,
                               [st_value |-> fns[i].addr, st_size |-> fns[i].size,
                                st_info |-> STB_GLOBAL * 16 + STT_FUNC,
                                st_other |-> 0, st_shndx |-> text_index,
                                st_name |-> acc.symstroff]),
                  strs |-> Append(acc.strs, SymName(fns[i])),
                  symstroff |-> acc.symstroff + Len(SymName(fns[i])) + 1],
                 fns, i + 1, text_index)

\* the section header table as a reader of the file finds it: e_shnum
\* headers at e_shoff
ShdrView(out) ==
    IF out.ehdr.e_shoff = out.shdr_at /\ out.ehdr.e_shnum <= Len(out.shdr)
    THEN SubSeq(out.shdr, 1, out.ehdr.e_shnum) ELSE <<>>

\* the name of a section: the string at sh_name of section e_shstrndx
SectionName(out, sec) ==
    LET view == ShdrView(out) IN
    IF out.ehdr.e_shstrndx + 1 \in DOMAIN view
       /\ view[out.ehdr.e_shstrndx + 1].sh_offset = out.strs_at
    THEN StrAt(out.strs, sec.sh_name) ELSE "<outside>"

\* (mutant) the reserved entries are not counted
GotPltSizeNoReserve(dsymcount) == dsymcount * ADDR_SZ

\* "(dsymcount * sizeof(ElfW(Addr))) + (3 * sizeof(ElfW(Addr)))"
GotPltSize(dsymcount) == dsymcount * ADDR_SZ + 3 * ADDR_SZ

\* build_local_symtab_and_finalize: symbols and their names are appended,
\* .symtab and .strtab are pointed at them, .got.plt is resized
build_local_symtab_and_finalize(out, fns, text_index) ==
    LET t  == SymWalk([syms |-> <<>>, strs |-> <<>>, symstroff |-> 0], fns, 1, text_index)
        symtab_offset == Size(out.data)
        w1 == WriteOut(out, "symtab", SYM_SZ * Len(fns))
        stloff == Size(w1.data)
        w2 == WriteOut(w1, "strtab", t.symstroff)
        view == ShdrView(out)
        names == [i \in DOMAIN view |-> SectionName(out, view[i])]
        Named(n) == {i \in DOMAIN view : names[i] = n}
        dsymcount == IF Named(".dynsym") = {} THEN 0
                     ELSE view[CHOOSE i \in Named(".dynsym") :
                                 \A j \in Named(".dynsym") : j <= i].sh_size \div SYM_SZ
        gotplt == IF Named(".got.plt") = {} THEN 0 ELSE MinOf(Named(".got.plt"))
        gotsize == GotPltSize(dsymcount)
        shdr == [i \in DOMAIN out.shdr |->
                   IF i \notin DOMAIN view THEN out.shdr[i]
                   ELSE IF names[i] = ".symtab"
                        THEN [out.shdr[i] EXCEPT !.sh_offset = symtab_offset,
                                                 !.sh_size = SYM_SZ * Len(fns)]
                   ELSE IF names[i] = ".strtab"
                        THEN [out.shdr[i] EXCEPT !.sh_offset = stloff,
                                                 !.sh_size = t.symstroff]
                   ELSE IF i = gotplt
                        THEN [out.shdr[i] EXCEPT !.sh_size = gotsize]
                   ELSE out.shdr[i]]
    IN  [data |-> w2.data, ehdr |-> out.ehdr, phdr |-> out.phdr,
         personality |-> out.personality,
         shdr |-> shdr, shdr_at |-> out.shdr_at,
         strs |-> out.strs, strs_at |-> out.strs_at,
         syms |-> t.syms, syms_at |-> symtab_offset,
         symstrs |-> t.strs, symstrs_at |-> stloff]

\* the end of core2ecfs: e_shoff and e_shnum are stored again, then
\* build_local_symtab_and_finalize
Core2EcfsTail(bsh, ef, personality, x) ==
    [ret |-> "0", ecfs_file |-> ef, personality |-> personality,
     text_shdr_index |-> bsh.text_shdr_index,
     out |-> build_local_symtab_and_finalize(
                 SetEhdr(SetEhdr(bsh.out, "e_shoff", ef.stb_offset), "e_shnum", bsh.scount),
                 x.fndata, bsh.text_shdr_index)]

Core2EcfsBody(core, ed, sm, hacks, md, nd, x, ef, personality) ==
    IF nd.thread_count < 1
    THEN [ret |-> "exit", ecfs_file |-> ef, personality |-> personality,
          text_shdr_index |-> 0, out |-> <<>>]
    ELSE Core2EcfsTail(
             build_section_headers(WriteBody(core, nd, md, personality),
                                   "ELF_STATIC" \notin personality,
                                   ed, sm, hacks, md, nd, ef, core, x),
             ef, personality, x)

\* core2ecfs: the process exits when a thread record cannot be written
core2ecfs(core, ed, sm, hacks, md, nd, x) ==
    Core2EcfsBody(core, ed, sm, hacks, md, nd, x,
                  EcfsOffsets(core.size, nd, md), build_elf_stats(ed, hacks, x))

-----------------------------------------------------------------------------
(* The conversion pipeline on a merged and reloaded core: Hacks, the       *)
(* original program headers, the library map, XRef, DynParse, and the      *)
(* output (core2ecfs).                                                      *)

\* libraries of a dynamically linked process; a static one has none
LibsOf(dyn) == IF dyn THEN MaxLibs ELSE 0

TextPagesOf(pages) == [j \in 0..MaxLibs |-> IF j = 0 THEN pages ELSE 1]

\* the state in which the conversion starts: the original executable, the
\* merged core, what procfs told of the process, and the decoded notes
EcfsStart(kind, dyn, shk, pages, ehzero, nsyms, nfn, heur, threads, fds, siginfo) ==
        /\ exe = OrigExe(kind, dyn, shk, pages, nsyms, nfn, ehzero, heur)
        /\ core0 = KernelCore(LibsOf(dyn), TextPagesOf(pages), "full", 0)
        /\ corefile = core0
        /\ memdesc = [text |-> [base |-> SegVaddr(1), size |-> pages * PAGE],
                      textseg |-> "exe",
                      maps |-> Maps(LibsOf(dyn), TextPagesOf(pages)),
                      pie |-> 0, exe_path |-> "/usr/bin/prog", exe_comm |-> "prog",
                      o_entry |-> SegVaddr(1) + Lay.text_at,
                      fdinfo_size |-> fds * FDINFO_SZ,
                      heap |-> [base |-> 0, size |-> 0],
                      stack |-> [base |-> SegVaddr(NSegs(LibsOf(dyn))), size |-> PAGE],
                      vdso |-> [base |-> 0, size |-> 0],
                      vsyscall |-> [base |-> 0, size |-> 0]]
        /\ handle = [elfdesc |-> load_core_file(corefile),
                     notedesc |-> [thread_count |-> threads, siginfo |-> siginfo,
                                   auxv_size |-> 320,
                                   nt_files |-> NtFiles(LibsOf(dyn), TextPagesOf(pages)),
                                   lm_files |-> <<>>],
                     smeta |-> [f \in SmetaFields |-> 0],
                     elfstat |-> [personality |-> {}]]
        /\ global_hacks = [stripped |-> 0]
        /\ ecfs_file = <<>>
        /\ text_shdr_index = 0
        /\ outfile = <<>>
        /\ procfs = <<>>
        /\ pc = "hacks"
        /\ mi = 1
        /\ last = NoMerge

InitEcfs ==
    \E kind \in ExeKinds, dyn \in BOOLEAN, shk \in ShdrKinds,
       pages \in {2, MaxExePages}, ehzero \in BOOLEAN,
       nsyms \in 1..MaxDynSyms, nfn \in 0..MaxFuncs, heur \in BOOLEAN,
       threads \in 1..MaxThreads, fds \in 0..1 :
        /\ (~dyn) => nsyms = 1
        /\ EcfsStart(kind, dyn, shk, pages, ehzero, nsyms, nfn, heur, threads, fds, TRUE)

\* fill_global_hacks
FillGlobalHacks ==
    /\ pc = "hacks"
    /\ global_hacks' = fill_global_hacks(exe)
    /\ pc' = "stripped"
    /\ UNCHANGED <<corefile, memdesc, exe, handle, ecfs_file, text_shdr_index, outfile>>
    /\ UNCHANGED mergeVars
    /\ UNCHANGED procfs

\* the caller records the result of check_for_stripped_shdr in Hacks
SetStripped ==
    /\ pc = "stripped"
    /\ global_hacks' = [global_hacks EXCEPT !.stripped = check_for_stripped_shdr(exe)]
    /\ pc' = "phdrs"
    /\ UNCHANGED <<corefile, memdesc, exe, handle, ecfs_file, text_shdr_index, outfile>>
    /\ UNCHANGED mergeVars
    /\ UNCHANGED procfs

\* parse_orig_phdrs
ParseOrigPhdrs ==
    /\ pc = "phdrs"
    /\ LET r == parse_orig_phdrs(handle.elfdesc, memdesc, handle.notedesc.nt_files, exe)
       IN  /\ handle' = [handle EXCEPT !.elfdesc = r.elfdesc]
           /\ memdesc' = IF r.ret = 0 /\ exe.e_type = "ET_DYN"
                         THEN [memdesc EXCEPT !.pie = r.elfdesc.pie] ELSE memdesc
           /\ pc' = IF r.ret = 0 THEN "libmaps" ELSE "failed"
    /\ UNCHANGED <<corefile, exe, global_hacks, ecfs_file, text_shdr_index, outfile>>
    /\ UNCHANGED mergeVars
    /\ UNCHANGED procfs

\* lookup_lib_maps
LookupLibMaps ==
    /\ pc = "libmaps"
    /\ handle' = [handle EXCEPT !.notedesc.lm_files =
                     lookup_lib_maps(handle.notedesc.nt_files, 1, memdesc.maps,
                                     corefile.phdr)]
    /\ pc' = "xref"
    /\ UNCHANGED <<corefile, memdesc, exe, global_hacks, ecfs_file, text_shdr_index, outfile>>
    /\ UNCHANGED mergeVars
    /\ UNCHANGED procfs

\* xref_phdrs_for_offsets
XrefPhdrs ==
    /\ pc = "xref"
    /\ handle' = [handle EXCEPT !.elfdesc =
                     xref_phdrs_for_offsets(handle.elfdesc, corefile.phdr, 1, global_hacks)]
    /\ pc' = "dyntag"
    /\ UNCHANGED <<corefile, memdesc, exe, global_hacks, ecfs_file, text_shdr_index, outfile>>
    /\ UNCHANGED mergeVars
    /\ UNCHANGED procfs

\* extract_dyntag_info, for a dynamically linked executable
ExtractDyntagInfo ==
    /\ pc = "dyntag"
    /\ handle.elfdesc.dynlinked # 0
    /\ LET r == extract_dyntag_info(handle.elfdesc, memdesc, corefile, exe, handle.smeta)
       IN  /\ handle' = [handle EXCEPT !.smeta = r.smeta]
           /\ pc' = IF r.ret = 0 THEN "core2ecfs" ELSE "failed"
    /\ UNCHANGED <<corefile, memdesc, exe, global_hacks, ecfs_file, text_shdr_index, outfile>>
    /\ UNCHANGED mergeVars
    /\ UNCHANGED procfs

\* core2ecfs, with build_section_headers and build_local_symtab_and_finalize
Core2Ecfs ==
    /\ \/ pc = "core2ecfs"
       \/ pc = "dyntag" /\ handle.elfdesc.dynlinked = 0
    /\ \E r \in {core2ecfs(corefile, handle.elfdesc, handle.smeta, global_hacks,
                            memdesc, handle.notedesc, exe)} :
       LET dynamic == "ELF_STATIC" \notin r.personality
           ed == handle.elfdesc
       IN  /\ handle' = [handle EXCEPT !.elfstat.personality = r.personality]
           /\ ecfs_file' = r.ecfs_file
           /\ text_shdr_index' = r.text_shdr_index
           /\ outfile' = r.out
           /\ global_hacks' =
                IF r.ret = "0" /\ EhFrameOffset(dynamic, ed, exe)
                                    # EhFrameOffset(dynamic, ed, [exe EXCEPT !.ehzero = FALSE])
                THEN [global_hacks EXCEPT !.eh_frame_offset_workaround = 1]
                ELSE global_hacks
           /\ pc' = IF r.ret = "0" THEN "done" ELSE "exited"
    /\ UNCHANGED <<corefile, memdesc, exe>>
    /\ UNCHANGED mergeVars
    /\ UNCHANGED procfs

NextEcfs ==
    \/ FillGlobalHacks
    \/ SetStripped
    \/ ParseOrigPhdrs
    \/ LookupLibMaps
    \/ XrefPhdrs
    \/ ExtractDyntagInfo
    \/ Core2Ecfs

SpecEcfs == InitEcfs /\ [][NextEcfs]_vars

\* the output file is complete
Done == pc = "done"

-----------------------------------------------------------------------------
(* Claims about the output file *)

\* the headers a reader finds, and the ones of a dynamically linked output
View == ShdrView(outfile)
Dynamic == "ELF_STATIC" \notin outfile.personality

\* the zero-based indices of the sections of the output that bear a name
Sections(name) == {i \in 0..(Len(View) - 1) : SectionName(outfile, View[i + 1]) = name}

\* the bytes of data with the fields of the ELF header in fs blanked
RECURSIVE MaskEhdr(_, _)
MaskEhdr(data, fs) ==
    IF fs = {} THEN data
    ELSE LET f == CHOOSE g \in fs : TRUE
         IN  MaskEhdr(Cat(Cat(TakeBytes(data, EhdrField[f].at),
                              <<Ext("blank", EhdrField[f].at, EhdrField[f].len)>>),
                          DropBytes(data, EhdrField[f].at + EhdrField[f].len)),
                      fs \ {f})

\* C4 (as stated): bytes [0, core_size) of every output are, byte for byte,
\* the core file that was loaded.
C4_CoreBytesKept ==
    Done => Slice(outfile.data, 0, corefile.size) = corefile.data

\* C4 (amended): bytes [0, core_size) of every output are those of the core
\* file that was loaded, except the ELF header fields e_type, e_entry,
\* e_shoff, e_shentsize, e_shnum and e_shstrndx, which the conversion stores.
C4_CoreBytesKeptButEhdr ==
    Done =>
        /\ Size(outfile.data) >= corefile.size
        /\ MaskEhdr(Slice(outfile.data, 0, corefile.size), DOMAIN EhdrField)
              = MaskEhdr(corefile.data, DOMAIN EhdrField)
        /\ outfile.phdr = corefile.phdr

\* C4 witness: a finished output with symbols, whose header was patched
C4_Witness ==
    /\ Done /\ Len(outfile.syms) > 0
    /\ outfile.ehdr.e_type = "ET_NONE" /\ outfile.ehdr.e_shnum > 0
    /\ Slice(outfile.data, 0, corefile.size) # corefile.data

\* C6: in the final output every section header has sh_offset + sh_size <=
\* file size (the fields are unsigned words: a negative number stands for a
\* word beyond any file size).
C6_SectionsInsideFile ==
    Done => \A i \in DOMAIN View :
               /\ View[i].sh_offset >= 0 /\ View[i].sh_size >= 0
               /\ View[i].sh_offset + View[i].sh_size <= Size(outfile.data)

\* the bytes a table of strings takes
RECURSIVE StrBytes(_)
StrBytes(strs) == IF strs = <<>> THEN 0 ELSE Len(Head(strs)) + 1 + StrBytes(Tail(strs))

\* the names of the sections, in their order, without the library mappings
NamesBefore == <<"">> \o (IF Dynamic THEN <<".interp">> ELSE <<>>) \o <<".note">>
    \o (IF Dynamic THEN <<".hash", ".dynsym", ".dynstr", ".rela.dyn", ".rela.plt",
                          ".init", ".plt">> ELSE <<>>)
    \o <<".text">> \o (IF Dynamic THEN <<".fini", ".eh_frame_hdr">> ELSE <<>>)
    \o <<".eh_frame">> \o (IF Dynamic THEN <<".dynamic", ".got.plt">> ELSE <<>>)
    \o <<".data", ".bss", ".heap">>
NamesAfter == <<".prstatus", ".fdinfo", ".siginfo", ".auxvector", ".exepath",
                ".personality", ".arglist", ".stack", ".vdso", ".vsyscall",
                ".symtab", ".strtab", ".shstrtab">>

\* C7: .shstrtab is the last section header and e_shstrndx = e_shnum - 1 is
\* its index; its range is exactly the string table written behind the
\* section header table; every sh_name is an offset in it at which the name
\* of that section starts.
C7_ShstrtabLastAndNames ==
    Done =>
        LET n == Len(View)
            nlib == n - Len(NamesBefore) - Len(NamesAfter)
        IN  /\ n = Len(outfile.shdr) /\ n = outfile.ehdr.e_shnum /\ n > 0
            /\ outfile.ehdr.e_shstrndx = outfile.ehdr.e_shnum - 1
            /\ SectionName(outfile, View[n]) = ".shstrtab"
            /\ View[n].sh_offset = outfile.ehdr.e_shoff + SHDR_SZ * outfile.ehdr.e_shnum
            /\ View[n].sh_size = StrBytes(outfile.strs)
            /\ Slice(outfile.data, View[n].sh_offset, View[n].sh_offset + View[n].sh_size)
                  = <<Ext("shstrtab", 0, StrBytes(outfile.strs))>>
            /\ nlib >= 0
            /\ \A i \in 1..n :
                  /\ View[i].sh_name >= 0 /\ View[i].sh_name < View[n].sh_size
                  /\ SectionName(outfile, View[i]) = outfile.strs[i]
                  /\ i <= Len(NamesBefore) => SectionName(outfile, View[i]) = NamesBefore[i]
                  /\ i > Len(NamesBefore) + nlib =>
                        SectionName(outfile, View[i]) = NamesAfter[i - Len(NamesBefore) - nlib]
                  /\ (i > Len(NamesBefore) /\ i <= Len(NamesBefore) + nlib) =>
                        View[i].sh_type \in {"SHT_SHLIB", "SHT_INJECTED"}

\* C7 witness: a dynamically linked output with library sections
C7_Witness ==
    /\ Done /\ Dynamic
    /\ Len(View) > Len(NamesBefore) + Len(NamesAfter)
    /\ Sections(".shstrtab") = {Len(View) - 1}

C9_GotPltResized ==
    (Done /\ Dynamic) =>
        /\ Sections(".got.plt") # {} /\ Sections(".dynsym") # {}
        /\ \A g \in Sections(".got.plt"), d \in Sections(".dynsym") :
              View[g + 1].sh_size = ((View[d + 1].sh_size \div SYM_SZ) + 3) * ADDR_SZ

\* C9 witness: the size .got.plt had from build_section_headers was another
C9_Witness ==
    /\ Done /\ Dynamic
    /\ \E g \in Sections(".got.plt"), d \in Sections(".dynsym") :
          /\ View[d + 1].sh_size = 2 * SYM_SZ
          /\ View[g + 1].sh_size # Fallback(global_hacks.got_size)

\* the original executable has an executable LOAD header at vaddr 0
ExecLoadAtZero ==
    \E i \in DOMAIN exe.phdr :
        /\ exe.phdr[i].p_type = "PT_LOAD" /\ HasFlag(exe.phdr[i].p_flags, PF_X)
        /\ exe.phdr[i].p_vaddr = 0
HasInterp == \E i \in DOMAIN exe.phdr : exe.phdr[i].p_type = "PT_INTERP"

-----------------------------------------------------------------------------
(* The library sections of build_section_headers on library lists of any   *)
(* shape: the loop over notedesc->lm_files.                                 *)

(* Bounds *)
MaxLmFiles == 6      \* library mappings in the list

LibFlagKinds == {PF_R + PF_X, PF_R + PF_W, PF_R, PF_W}

\* a library list: mapping i belongs to library names[i] and has flags[i]
LmFilesOf(names, flags) ==
    [i \in DOMAIN flags |->
        [name |-> LibNames[names[i]], addr |-> SegVaddr(i + 2), size |-> PAGE,
         flags |-> flags[i], offset |-> (i + 2) * PAGE, injected |-> FALSE]]

\* the table before the library sections are added
NoSections == [shdr |-> <<>>, strs |-> <<>>, stoffset |-> 0, text_shdr_index |-> 0]

InitLibs ==
    \E n \in 1..MaxLmFiles, dynamic \in BOOLEAN :
    \E split \in 0..n, flags \in [1..n -> LibFlagKinds] :
        /\ handle = [notedesc |-> [lm_files |->
                        LmFilesOf([i \in 1..n |-> IF i <= split THEN 1 ELSE 2], flags)],
                     elfstat |-> [personality |-> IF dynamic THEN {} ELSE {"ELF_STATIC"}]]
        /\ pc = "libs"
        /\ outfile = <<>>
        /\ corefile = <<>>
        /\ core0 = <<>>
        /\ memdesc = <<>>
        /\ mi = 1
        /\ last = NoMerge
        /\ exe = <<>>
        /\ global_hacks = <<>>
        /\ ecfs_file = <<>>
        /\ text_shdr_index = 0
        /\ procfs = <<>>

\* the loop over the library mappings in build_section_headers
BuildLibSections ==
    /\ pc = "libs"
    /\ outfile' = WithLibs(NoSections, "ELF_STATIC" \notin handle.elfstat.personality,
                           handle.notedesc)
    /\ pc' = "libs_done"
    /\ UNCHANGED <<corefile, core0, memdesc, mi, last, exe, handle, global_hacks,
                   ecfs_file, text_shdr_index, procfs>>

NextLibs == BuildLibSections

SpecLibs == InitLibs /\ [][NextLibs]_vars

\* the flags of the mappings of the library list, in their order
LmFlags == [i \in DOMAIN handle.notedesc.lm_files |-> handle.notedesc.lm_files[i].flags]
LmNames == [i \in DOMAIN handle.notedesc.lm_files |-> handle.notedesc.lm_files[i].name]
TwoLibsOfThree ==
    /\ "ELF_STATIC" \notin handle.elfstat.personality
    /\ LmNames = <<"libfoo.so", "libfoo.so", "libfoo.so", "libbar.so", "libbar.so", "libbar.so">>
    /\ LmFlags = <<PF_R + PF_X, PF_R + PF_W, PF_R, PF_R + PF_X, PF_R + PF_W, PF_R>>

\* C11 (as stated): for two libraries libfoo.so and libbar.so with R|X, R|W
\* and R mappings each, the library sections are named libfoo.so.text,
\* libfoo.so.data.0, libfoo.so.relro, libbar.so.text, libbar.so.data.0,
\* libbar.so.relro: the data counter starts at 0 for each library.
C11_DataCounterPerLibrary ==
    (pc = "libs_done" /\ TwoLibsOfThree) =>
        outfile.strs = <<"libfoo.so.text", "libfoo.so.data.0", "libfoo.so.relro",
                         "libbar.so.text", "libbar.so.data.0", "libbar.so.relro">>

\* C11 (amended): the data counter starts at 0 once and runs on across the
\* libraries: the section of an R|W mapping is named <name>.data.<n>, n the
\* number of R|W mappings before it in the whole list; for the two
\* libraries the names are libfoo.so.text, libfoo.so.data.0,
\* libfoo.so.relro, libbar.so.text, libbar.so.data.1, libbar.so.relro.
C11_DataCounterRunsOn ==
    (pc = "libs_done" /\ "ELF_STATIC" \notin handle.elfstat.personality) =>
        /\ Len(outfile.strs) = Len(LmFlags)
        /\ \A i \in DOMAIN LmFlags :
              outfile.strs[i] =
                 CASE LmFlags[i] = PF_R + PF_X -> LmNames[i] \o ".text"
                   [] LmFlags[i] = PF_R + PF_W ->
                        LmNames[i] \o ".data." \o
                          ToString(Cardinality({j \in 1..(i - 1) : LmFlags[j] = PF_R + PF_W}))
                   [] LmFlags[i] = PF_R -> LmNames[i] \o ".relro"
                   [] OTHER -> LmNames[i] \o ".undef"
        /\ TwoLibsOfThree =>
              outfile.strs = <<"libfoo.so.text", "libfoo.so.data.0", "libfoo.so.relro",
                               "libbar.so.text", "libbar.so.data.1", "libbar.so.relro">>

\* C11 witness: the sections of the two libraries have been named
C11_Witness ==
    /\ pc = "libs_done" /\ TwoLibsOfThree
    /\ Len(outfile.strs) = 6 /\ outfile.strs[5] = "libbar.so.data.1"

-----------------------------------------------------------------------------
(* parse_notes_area: the walk over the notes of the core.  A note is       *)
(* [n_type, n_namesz, n_descsz, desc]; desc names its descriptor bytes.    *)
(* notedesc comes from heapAlloc and starts zeroed.                         *)

(* Bounds *)
MaxNotes == 3        \* notes in the PT_NOTE segment

\* the notes a core can hold: PRSTATUS of the right and of a wrong size,
\* SIGINFO, AUXV, and a note of a type the switch has no case for
NoteKinds ==
    {[n_type |-> "NT_PRSTATUS", n_namesz |-> 5, n_descsz |-> PRSTATUS_SZ],
     [n_type |-> "NT_PRSTATUS", n_namesz |-> 5, n_descsz |-> PRSTATUS_SZ - 8],
     [n_type |-> "NT_SIGINFO", n_namesz |-> 5, n_descsz |-> SIGINFO_SZ],
     [n_type |-> "NT_AUXV", n_namesz |-> 5, n_descsz |-> 320],
     [n_type |-> "NT_OTHER", n_namesz |-> 6, n_descsz |-> 66]}

\* what lies behind the PT_NOTE segment in the file, read as notes: zero
\* padding, or bytes that look like a PRSTATUS note
TailKinds ==
    {[n_type |-> "NT_NONE", n_namesz |-> 0, n_descsz |-> 0],
     [n_type |-> "NT_PRSTATUS", n_namesz |-> 5, n_descsz |-> PRSTATUS_SZ]}

\* the bytes a note takes: ELFNOTE_NEXT
NoteBytes(n) == 12 + ((n.n_namesz + 3) \div 4) * 4 + ((n.n_descsz + 3) \div 4) * 4

RECURSIVE NotesBytes(_)
NotesBytes(notes) ==
    IF notes = <<>> THEN 0 ELSE NoteBytes(Head(notes)) + NotesBytes(Tail(notes))

\* (mutant) the size of the descriptor is not looked at
RightSizeAlways(n, size) == TRUE

\* "notes->n_descsz != sizeof(...)" is false
RightSize(n, size) == n.n_descsz = size

\* "len = (n_descsz + n_namesz + sizeof(long) + 3) & ~3"
NoteLen(n) == ((n.n_descsz + n.n_namesz + 8 + 3) \div 4) * 4

\* note k of the walk: a note of the segment, or what lies behind it
NoteAt(core, k) ==
    IF k <= Len(core.notes) THEN [core.notes[k] EXCEPT !.desc = k]
    ELSE [core.tail EXCEPT !.desc = k]

\* the switch of parse_notes_area on one note
ParseNoteStep(nd, n) ==
    CASE n.n_type = "NT_PRSTATUS" /\ RightSize(n, PRSTATUS_SZ) ->
           [nd EXCEPT !.prstatus = IF nd.thread_count = 0 THEN n.desc ELSE @,
                      !.thread_core_info = Append(@, n.desc),
                      !.thread_count = @ + 1]
      [] n.n_type = "NT_SIGINFO" /\ RightSize(n, SIGINFO_SZ) ->
           [nd EXCEPT !.siginfo = n.desc]
      [] n.n_type = "NT_AUXV" ->
           [nd EXCEPT !.auxv = n.desc, !.auxv_size = n.n_descsz]
      [] OTHER -> nd

InitNotes ==
    \E len \in 0..MaxNotes, tail \in TailKinds :
    \E notes \in [1..len -> NoteKinds] :
        /\ corefile = [notes |-> [k \in 1..len |-> notes[k] @@ [desc |-> k]],
                       tail |-> tail @@ [desc |-> 0]]
        /\ handle = [elfdesc |-> [noteSize |-> NotesBytes(notes)],
                     notedesc |-> [thread_count |-> 0, prstatus |-> 0,
                                   thread_core_info |-> <<>>, siginfo |-> 0,
                                   auxv |-> 0, auxv_size |-> 0],
                     i |-> 0, notes |-> 1, seen |-> <<>>]
        /\ pc = "notes"
        /\ outfile = <<>>
        /\ core0 = <<>>
        /\ memdesc = <<>>
        /\ mi = 1
        /\ last = NoMerge
        /\ exe = <<>>
        /\ global_hacks = <<>>
        /\ ecfs_file = <<>>
        /\ text_shdr_index = 0
        /\ procfs = <<>>

\* one iteration of the loop of parse_notes_area
ParseNote ==
    /\ pc = "notes"
    /\ handle.i < handle.elfdesc.noteSize
    /\ handle' = [handle EXCEPT
                     !.notedesc = ParseNoteStep(@, NoteAt(corefile, handle.notes)),
                     !.i = @ + NoteLen(NoteAt(corefile, handle.notes)),
                     !.notes = @ + 1,
                     !.seen = Append(@, NoteAt(corefile, handle.notes))]
    /\ UNCHANGED <<pc, corefile, core0, memdesc, mi, last, exe, global_hacks,
                   ecfs_file, text_shdr_index, outfile, procfs>>

\* parse_notes_area returns
ParseNotesReturn ==
    /\ pc = "notes"
    /\ handle.i >= handle.elfdesc.noteSize
    /\ pc' = "notes_done"
    /\ UNCHANGED <<corefile, core0, memdesc, mi, last, exe, handle, global_hacks,
                   ecfs_file, text_shdr_index, outfile, procfs>>

NextNotes == ParseNote \/ ParseNotesReturn

SpecNotes == InitNotes /\ [][NextNotes]_vars

\* the descriptors of the correctly sized PRSTATUS notes among those seen
RECURSIVE GoodPrstatus(_)
GoodPrstatus(seen) ==
    IF seen = <<>> THEN <<>>
    ELSE (IF Head(seen).n_type = "NT_PRSTATUS" /\ Head(seen).n_descsz = PRSTATUS_SZ
          THEN <<Head(seen).desc>> ELSE <<>>) \o GoodPrstatus(Tail(seen))

\* C12: a PRSTATUS note of a wrong size is skipped: thread_count is not
\* incremented and no record is stored for it, and the walk goes on with the
\* notes behind it; thread_count is always the number of correctly sized
\* PRSTATUS notes seen, and the first of them is the primary record and
\* thread_core_info[0].
C12_WrongSizePrstatusSkipped ==
    pc \in {"notes", "notes_done"} =>
        LET nd == handle.notedesc
            good == GoodPrstatus(handle.seen)
        IN  /\ nd.thread_count = Len(good)
            /\ nd.thread_core_info = good
            /\ nd.prstatus = IF good = <<>> THEN 0 ELSE good[1]
            /\ good # <<>> => nd.thread_core_info[1] = nd.prstatus
            /\ pc = "notes_done" =>
                  /\ Len(handle.seen) >= Len(corefile.notes)
                  /\ SubSeq(handle.seen, 1, Len(corefile.notes)) = corefile.notes

\* C12 witness: a wrong-sized PRSTATUS came first and was skipped, a
\* correctly sized one behind it became the primary record
C12_Witness ==
    /\ pc = "notes_done" /\ Len(corefile.notes) >= 2
    /\ corefile.notes[1].n_type = "NT_PRSTATUS" /\ corefile.notes[1].n_descsz # PRSTATUS_SZ
    /\ corefile.notes[2].n_type = "NT_PRSTATUS" /\ corefile.notes[2].n_descsz = PRSTATUS_SZ
    /\ handle.notedesc.prstatus = 2

-----------------------------------------------------------------------------
(* The order of the section headers *)

\* C13: the section headers come in the fixed order NULL, .interp, .note,
\* .hash, .dynsym, .dynstr, .rela.dyn, .rela.plt, .init, .plt, .text, .fini,
\* .eh_frame_hdr, .eh_frame, .dynamic, .got.plt, .data, .bss, .heap, library
\* sections, .prstatus, .fdinfo, .siginfo, .auxvector, .exepath,
\* .personality, .arglist, .stack, .vdso, .vsyscall, .symtab, .strtab,
\* .shstrtab; .interp, .hash, .dynsym, .dynstr, .rela.dyn, .rela.plt, .init,
\* .plt, .fini, .eh_frame_hdr, .dynamic, .got.plt and the library sections
\* are there iff the STATIC bit of the personality is clear.
C13_SectionOrder ==
    Done =>
        LET static == "ELF_STATIC" \in handle.elfstat.personality
            opt(names) == IF static THEN <<>> ELSE names
            head == <<"">> \o opt(<<".interp">>) \o <<".note">>
                    \o opt(<<".hash", ".dynsym", ".dynstr", ".rela.dyn", ".rela.plt",
                             ".init", ".plt">>)
                    \o <<".text">> \o opt(<<".fini", ".eh_frame_hdr">>)
                    \o <<".eh_frame">> \o opt(<<".dynamic", ".got.plt">>)
                    \o <<".data", ".bss", ".heap">>
            tail == <<".prstatus", ".fdinfo", ".siginfo", ".auxvector", ".exepath",
                      ".personality", ".arglist", ".stack", ".vdso", ".vsyscall",
                      ".symtab", ".strtab", ".shstrtab">>
            names == [i \in 1..Len(outfile.shdr) |-> SectionName(outfile, outfile.shdr[i])]
            libs == {i \in 1..Len(outfile.shdr) :
                        outfile.shdr[i].sh_type \in {"SHT_SHLIB", "SHT_INJECTED"}}
            nlib == IF static THEN 0 ELSE Len(handle.notedesc.lm_files)
        IN  /\ Len(names) = Len(head) + nlib + Len(tail)
            /\ SubSeq(names, 1, Len(head)) = head
            /\ SubSeq(names, Len(head) + nlib + 1, Len(names)) = tail
            /\ libs = (Len(head) + 1)..(Len(head) + nlib)
            /\ static => Len(names) = 20

\* C13 witness: the table of a statically linked executable: none of the
\* sections of a dynamic one is there
C13_Witness ==
    /\ Done
    /\ "ELF_STATIC" \in handle.elfstat.personality
    /\ Len(outfile.shdr) = 20
    /\ Sections(".note") = {1} /\ Sections(".text") = {2}
    /\ Sections(".interp") = {} /\ Sections(".dynamic") = {}

-----------------------------------------------------------------------------
(* core2ecfs: where the forensic payloads land.  The conversion is run on  *)
(* processes with 0 to MaxThreads thread records and with and without a    *)
(* siginfo note.                                                            *)

InitPayload ==
    \E dyn \in BOOLEAN, nfn \in 0..1, threads \in 0..MaxThreads, fds \in 0..1,
       siginfo \in BOOLEAN :
        EcfsStart("exec", dyn, "kept", 2, FALSE, 1, nfn, FALSE, threads, fds, siginfo)

SpecPayload == InitPayload /\ [][NextEcfs]_vars

\* the bytes of the output that a write of src put there
RECURSIVE Written(_, _)
Written(data, src) ==
    IF data = <<>> THEN 0
    ELSE (IF Head(data).src = src THEN Head(data).len ELSE 0) + Written(Tail(data), src)

\* the position of the first byte of the output that a write of src put there
RECURSIVE PosOf(_, _)
PosOf(data, src) ==
    IF data = <<>> \/ Head(data).src = src THEN 0
    ELSE Head(data).len + PosOf(Tail(data), src)

\* the recorded offsets are the positions of the writes, each payload begins
\* where the one before it ends, and e_shoff is where the table was written
OffsetsAsWritten ==
    LET ef == ecfs_file
        d == outfile.data
    IN  /\ ef.prstatus_offset = corefile.size
        /\ ef.fdinfo_offset = ef.prstatus_offset + Written(d, "prstatus")
        /\ ef.siginfo_offset = ef.fdinfo_offset + Written(d, "fdinfo")
        /\ ef.auxv_offset = ef.siginfo_offset + Written(d, "siginfo")
        /\ ef.exepath_offset = ef.auxv_offset + Written(d, "auxv")
        /\ ef.personality_offset = ef.exepath_offset + Written(d, "exepath")
        /\ ef.arglist_offset = ef.personality_offset + Written(d, "personality")
        /\ PosOf(d, "prstatus") = ef.prstatus_offset
        /\ PosOf(d, "personality") = ef.personality_offset
        /\ PosOf(d, "arglist") = ef.arglist_offset
        /\ outfile.ehdr.e_shoff = PosOf(d, "shdr")
        /\ outfile.ehdr.e_shoff >= ef.arglist_offset + Written(d, "arglist")

\* C14: for every thread_count >= 0 core2ecfs leaves an output in which the
\* recorded offset of each payload (prstatus, fdinfo, siginfo, auxv, exepath,
\* personality, arglist) is the position at which it was written, each
\* payload starts where the one before ends, prstatus starts at core_size,
\* and e_shoff is the position at which the section header table was
\* written, past all payloads.
C14_OffsetsAsWritten ==
    pc \in {"done", "exited"} => (pc = "done" /\ OffsetsAsWritten)

\* what holds: the same for a process with at least one thread record and a
\* siginfo note
PayloadsWithThreadAndSiginfo ==
    (pc \in {"done", "exited"} /\ handle.notedesc.thread_count >= 1
        /\ handle.notedesc.siginfo) => (pc = "done" /\ OffsetsAsWritten)

-----------------------------------------------------------------------------
(* fill_sock_info: the socket of a descriptor in /proc/net/tcp and          *)
(* /proc/net/udp.  A table is the sequence of its lines behind the header; *)
(* a line is [inode, local_addr, local_port, rem_addr, rem_port].           *)

(* Bounds *)
MaxSockEntries == 3      \* lines of a table
MaxInode == 2            \* inode numbers

\* the lines of a table of n sockets with the inodes ino; the addresses and
\* ports tell the lines of the two tables apart
SockTable(ino, base) ==
    [k \in DOMAIN ino |-> [inode |-> ino[k], local_addr |-> base + k,
                           local_port |-> base + 10 + k, rem_addr |-> base + 20 + k,
                           rem_port |-> base + 30 + k]]

\* one of the two while loops: every line whose inode matches is stored
RECURSIVE ScanTable(_, _, _, _, _)
ScanTable(fdinfo, table, k, inode, net) ==
    IF k > Len(table) THEN fdinfo
    ELSE ScanTable(IF table[k].inode = inode
                   THEN [fdinfo EXCEPT !.socket = [src_addr |-> table[k].local_addr,
                                                   dst_addr |-> table[k].rem_addr,
                                                   src_port |-> table[k].local_port,
                                                   dst_port |-> table[k].rem_port],
                                       !.net = net]
                   ELSE fdinfo,
                   table, k + 1, inode, net)

fill_sock_info(fdinfo, inode, tcp, udp) ==
    ScanTable(ScanTable(fdinfo, tcp, 1, inode, "NET_TCP"), udp, 1, inode, "NET_UDP")

InitSock ==
    \E nt \in 0..MaxSockEntries, nu \in 0..MaxSockEntries :
    \E it \in [1..nt -> 1..MaxInode], iu \in [1..nu -> 1..MaxInode] :
        /\ procfs = [tcp |-> SockTable(it, 100), udp |-> SockTable(iu, 200)]
        /\ memdesc = [fdinfo |-> [net |-> "0", inode |-> 1,
                                  socket |-> [src_addr |-> 0, dst_addr |-> 0,
                                              src_port |-> 0, dst_port |-> 0]]]
        /\ pc = "sock"
        /\ handle = <<>>
        /\ outfile = <<>>
        /\ corefile = <<>>
        /\ core0 = <<>>
        /\ mi = 1
        /\ last = NoMerge
        /\ exe = <<>>
        /\ global_hacks = <<>>
        /\ ecfs_file = <<>>
        /\ text_shdr_index = 0

FillSockInfo ==
    /\ pc = "sock"
    /\ memdesc' = [memdesc EXCEPT !.fdinfo =
                      fill_sock_info(@, @.inode, procfs.tcp, procfs.udp)]
    /\ pc' = "sock_done"
    /\ UNCHANGED <<corefile, core0, mi, last, exe, handle, global_hacks, ecfs_file,
                   text_shdr_index, outfile, procfs>>

NextSock == FillSockInfo

SpecSock == InitSock /\ [][NextSock]_vars

\* the lines of a table whose inode is the one looked for
Matches(table) == {k \in DOMAIN table : table[k].inode = memdesc.fdinfo.inode}

\* what the descriptor shows is line k of the table, with protocol net
ShowsLine(table, k, net) ==
    /\ memdesc.fdinfo.net = net
    /\ memdesc.fdinfo.socket = [src_addr |-> table[k].local_addr,
                                dst_addr |-> table[k].rem_addr,
                                src_port |-> table[k].local_port,
                                dst_port |-> table[k].rem_port]

FirstOf(S) == CHOOSE k \in S : \A j \in S : k <= j

\* C15: the protocol, addresses and ports are those of the first line whose
\* inode matches, TCP table before UDP table: a match in the TCP table gives
\* NET_TCP with the fields of that line whatever follows in the TCP table or
\* stands in the UDP table; a UDP line is used only when no TCP line matched.
C15_FirstMatchWins ==
    pc = "sock_done" =>
        /\ Matches(procfs.tcp) # {} =>
              ShowsLine(procfs.tcp, FirstOf(Matches(procfs.tcp)), "NET_TCP")
        /\ (Matches(procfs.tcp) = {} /\ Matches(procfs.udp) # {}) =>
              ShowsLine(procfs.udp, FirstOf(Matches(procfs.udp)), "NET_UDP")
        /\ (Matches(procfs.tcp) = {} /\ Matches(procfs.udp) = {}) =>
              memdesc.fdinfo.net = "0"

\* what holds when no inode stands twice in the tables
SockOfOnlyMatch ==
    (pc = "sock_done" /\ Cardinality(Matches(procfs.tcp)) + Cardinality(Matches(procfs.udp)) <= 1)
        => /\ \A k \in Matches(procfs.tcp) : ShowsLine(procfs.tcp, k, "NET_TCP")
           /\ \A k \in Matches(procfs.udp) : ShowsLine(procfs.udp, k, "NET_UDP")
           /\ (Matches(procfs.tcp) = {} /\ Matches(procfs.udp) = {}) =>
                 memdesc.fdinfo.net = "0"

-----------------------------------------------------------------------------
(* get_segment_from_pmem and read_pmem, statement by statement.  procfs    *)
(* holds the stops of the process that no SIGCONT has answered yet, and    *)
(* what the current call did to the process.                                *)

(* Bounds *)
MaxMaps == 2         \* mappings of the process
MaxCalls == 2        \* calls of get_segment_from_pmem

\* mapping k of the process: one page, with a page free behind it
PmemMaps(n) == [k \in 1..n |-> [base |-> 2 * k * PAGE, size |-> PAGE]]

\* addresses asked for: first and last byte of a page
PmemAddrs == {j * PAGE + d : j \in 2..(2 * MaxMaps + 1), d \in {0, PAGE - 1}}

\* what pread can give for len bytes: all of them, fewer, or an error
PreadResults(len) == {len, len - 1, -1}

\* read_pmem: "if (bytes != len) return -1; return bytes"
read_pmem(bytes, len) == IF bytes # len THEN -1 ELSE bytes

\* deliver_signal: the signal goes to the process
deliver_signal(p, sig) ==
    [stops |-> IF sig = "SIGSTOP" THEN p.stops + 1 ELSE p.stops - 1,
     log |-> Append(p.log, sig)]

\* (mutant) no SIGCONT after a read that failed
AfterReadIfOk(p, ret) == IF ret = -1 THEN p ELSE deliver_signal(p, "SIGCONT")

\* "deliver_signal(memdesc->task.pid, SIGCONT)" behind the read
AfterRead(p, ret) == deliver_signal(p, "SIGCONT")

InitPmem ==
    \E n \in 0..MaxMaps :
        /\ memdesc = [maps |-> PmemMaps(n), mapcount |-> n]
        /\ handle = [vaddr |-> 0, i |-> 0, len |-> 0, ret |-> 0, calls |-> 0]
        /\ procfs = [stops |-> 0, log |-> <<>>]
        /\ pc = "pmem_idle"
        /\ outfile = <<>>
        /\ corefile = <<>>
        /\ core0 = <<>>
        /\ mi = 1
        /\ last = NoMerge
        /\ exe = <<>>
        /\ global_hacks = <<>>
        /\ ecfs_file = <<>>
        /\ text_shdr_index = 0

\* a caller calls get_segment_from_pmem
PmemCall ==
    /\ pc \in {"pmem_idle", "pmem_ret"}
    /\ handle.calls < MaxCalls
    /\ \E vaddr \in PmemAddrs :
          handle' = [vaddr |-> vaddr, i |-> 0, len |-> 0, ret |-> 0,
                     calls |-> handle.calls + 1]
    /\ procfs' = [procfs EXCEPT !.log = <<>>]
    /\ pc' = "pmem_loop"
    /\ UNCHANGED <<corefile, core0, memdesc, mi, last, exe, global_hacks, ecfs_file,
                   text_shdr_index, outfile>>

\* the address is in mapping i: its length is taken, SIGSTOP is delivered
PmemStop ==
    /\ pc = "pmem_loop"
    /\ handle.i < memdesc.mapcount
    /\ handle.vaddr >= memdesc.maps[handle.i + 1].base
    /\ handle.vaddr < memdesc.maps[handle.i + 1].base + memdesc.maps[handle.i + 1].size
    /\ handle' = [handle EXCEPT !.len = memdesc.maps[handle.i + 1].size]
    /\ procfs' = deliver_signal(procfs, "SIGSTOP")
    /\ pc' = "pmem_read"
    /\ UNCHANGED <<corefile, core0, memdesc, mi, last, exe, global_hacks, ecfs_file,
                   text_shdr_index, outfile>>

\* the address is not in mapping i: the loop goes on
PmemNextMap ==
    /\ pc = "pmem_loop"
    /\ handle.i < memdesc.mapcount
    /\ ~ (/\ handle.vaddr >= memdesc.maps[handle.i + 1].base
          /\ handle.vaddr < memdesc.maps[handle.i + 1].base
                              + memdesc.maps[handle.i + 1].size)
    /\ handle' = [handle EXCEPT !.i = @ + 1]
    /\ UNCHANGED <<pc, corefile, core0, memdesc, mi, last, exe, global_hacks,
                   ecfs_file, text_shdr_index, outfile, procfs>>

\* read_pmem: the pread of /proc/<pid>/mem
PmemRead ==
    /\ pc = "pmem_read"
    /\ \E bytes \in PreadResults(handle.len) :
          handle' = [handle EXCEPT !.ret = read_pmem(bytes, handle.len)]
    /\ procfs' = [procfs EXCEPT !.log = Append(@, "pread")]
    /\ pc' = "pmem_cont"
    /\ UNCHANGED <<corefile, core0, memdesc, mi, last, exe, global_hacks, ecfs_file,
                   text_shdr_index, outfile>>

\* SIGCONT is delivered and the result of the read returned
PmemContReturn ==
    /\ pc = "pmem_cont"
    /\ procfs' = AfterRead(procfs, handle.ret)
    /\ pc' = "pmem_ret"
    /\ UNCHANGED <<corefile, core0, memdesc, mi, last, exe, handle, global_hacks,
                   ecfs_file, text_shdr_index, outfile>>

\* no mapping holds the address: "return -1"
PmemReturnMiss ==
    /\ pc = "pmem_loop"
    /\ handle.i >= memdesc.mapcount
    /\ handle' = [handle EXCEPT !.ret = -1]
    /\ pc' = "pmem_ret"
    /\ UNCHANGED <<corefile, core0, memdesc, mi, last, exe, global_hacks, ecfs_file,
                   text_shdr_index, outfile, procfs>>

NextPmem ==
    \/ PmemCall
    \/ PmemStop
    \/ PmemNextMap
    \/ PmemRead
    \/ PmemContReturn
    \/ PmemReturnMiss

SpecPmem == InitPmem /\ [][NextPmem]_vars

\* the address of the call lies in a mapping
InMapping ==
    \E k \in 1..memdesc.mapcount :
        /\ handle.vaddr >= memdesc.maps[k].base
        /\ handle.vaddr < memdesc.maps[k].base + memdesc.maps[k].size

\* C16: in every call of get_segment_from_pmem for an address in a mapping
\* the read of /proc/<pid>/mem comes after a SIGSTOP and before the SIGCONT
\* that answers it; on every return path, a short or failed read included,
\* the SIGCONT has been delivered; never more than one stop is outstanding,
\* and none after the return.
C16_ReadInsideStop ==
    /\ procfs.stops \in {0, 1}
    /\ procfs.log \in {<<>>, <<"SIGSTOP">>, <<"SIGSTOP", "pread">>,
                       <<"SIGSTOP", "pread", "SIGCONT">>}
    /\ procfs.stops = (IF Len(procfs.log) \in {1, 2} THEN 1 ELSE 0)
    /\ pc = "pmem_ret" =>
          /\ procfs.stops = 0
          /\ InMapping => procfs.log = <<"SIGSTOP", "pread", "SIGCONT">>
          /\ ~InMapping => (procfs.log = <<>> /\ handle.ret = -1)

\* C16 witness: a call for an address in a mapping has returned after a
\* read that failed, and the process runs again
C16_Witness ==
    /\ pc = "pmem_ret" /\ InMapping /\ handle.ret = -1
    /\ procfs.stops = 0
    /\ procfs.log = <<"SIGSTOP", "pread", "SIGCONT">>

-----------------------------------------------------------------------------
(* get_maps: one record of maps[] per line of /proc/<pid>/maps.  A line is *)
(* "base-end perms offset dev inode <blanks> path"; of its text the model  *)
(* keeps the perms, the path with what strstr finds in it, and the number  *)
(* of blanks before the path.  maps[] starts zeroed.                        *)

(* Bounds *)
MaxLines == 2        \* lines of the maps file
MapSlots == 48       \* records of maps[]

QSIZE == 32          \* "q = alloca(32)"

\* the perms field: r, w, x and the share marker
PermKinds == [r : BOOLEAN, w : BOOLEAN, x : BOOLEAN, s : BOOLEAN]

PermText(p) ==
    (IF p.r THEN "r" ELSE "-") \o (IF p.w THEN "w" ELSE "-")
        \o (IF p.x THEN "x" ELSE "-") \o (IF p.s THEN "s" ELSE "p")

\* the paths: text, what follows the last '/', and the strings that strstr
\* looks for and finds in it (all of them in the part behind the last '/')
PathKinds ==
    {[text |-> "", base |-> "", has |-> {}],
     [text |-> "/usr/bin/prog", base |-> "prog", has |-> {}],
     [text |-> "/usr/lib/libfoo.so", base |-> "libfoo.so", has |-> {".so"}],
     [text |-> "/usr/share/data.bin", base |-> "data.bin", has |-> {}],
     [text |-> "/tmp/r-xp", base |-> "r-xp", has |-> {"r-xp"}],
     [text |-> "[heap]", base |-> "", has |-> {"[heap]"}],
     [text |-> "[stack]", base |-> "", has |-> {"[stack]"}],
     [text |-> "[stack:1234]", base |-> "", has |-> {"[stack:"}],
     [text |-> "[vdso]", base |-> "", has |-> {"[vdso]"}],
     [text |-> "[vsyscall]", base |-> "", has |-> {"[vsyscall]"}]}

\* blanks before the path: one, or the kernel's filling up to column 73 of
\* a line with 12-digit addresses
PadKinds == {1, 26}

LineKinds == [perms : PermKinds, path : PathKinds, pad : PadKinds]

\* "strstr(tmp, s)"
Has(line, s) == PermText(line.perms) = s \/ s \in line.path.has

\* "chp = strrchr(tmp, '/')" is not NULL
HasSlash(line) == line.path.base # ""

\* the text from behind the first ':' of the line, which is the one of the
\* dev field 00:00, up to the ']' of [stack:1234]
RECURSIVE Blanks(_)
Blanks(n) == IF n = 0 THEN "" ELSE " " \o Blanks(n - 1)

ColonToBracket(line) == "00 0" \o Blanks(line.pad) \o "[stack:1234"

\* the field of the record that the if-else chain counts up, "none" if none
MapKind(line, path) ==
    IF HasSlash(line) /\ line.path.base = path
    THEN (IF ~Has(line, "---p") THEN "elfmap" ELSE "none")
    ELSE IF Has(line, "[heap]") THEN "heap"
    ELSE IF Has(line, "[stack]") THEN "stack"
    ELSE IF Has(line, "[stack:") THEN "thread_stack"
    ELSE IF Has(line, "---p") THEN "padding"
    ELSE IF Has(line, "[vdso]") THEN "vdso"
    ELSE IF Has(line, "[vsyscall]") THEN "vsyscall"
    ELSE IF HasSlash(line)
         THEN (IF ".so" \in line.path.has THEN "shlib"
               ELSE IF "rwxp" \in line.path.has \/ "r-xp" \in line.path.has
                    THEN "filemap_exe"
               ELSE "filemap")
    ELSE IF Has(line, "rwxp") \/ Has(line, "r-xp") THEN "anonmap_exe"
    ELSE "none"

\* the second if-else chain: p_flags of a private mapping, special of a
\* shared one
MapPerms(rec, line) ==
    IF Has(line, "r--p") THEN [rec EXCEPT !.p_flags = PF_R]
    ELSE IF Has(line, "rw-p") THEN [rec EXCEPT !.p_flags = PF_R + PF_W]
    ELSE IF Has(line, "-w-p") THEN [rec EXCEPT !.p_flags = PF_W]
    ELSE IF Has(line, "--xp") THEN [rec EXCEPT !.p_flags = PF_X]
    ELSE IF Has(line, "r-xp") THEN [rec EXCEPT !.p_flags = PF_X + PF_R]
    ELSE IF Has(line, "-wxp") THEN [rec EXCEPT !.p_flags = PF_X + PF_W]
    ELSE IF Has(line, "rwxp") THEN [rec EXCEPT !.p_flags = PF_X + PF_W + PF_R]
    ELSE IF \E s \in {"r--s", "rw-s", "-w-s", "--xs", "r-xs", "-wxs", "rwxs"} :
               Has(line, s)
         THEN [rec EXCEPT !.special = @ + 1]
    ELSE rec

\* the first part of the loop body on record lc
MapRecord(rec, line, lc, kind) ==
    [rec EXCEPT !.elfmap = IF kind = "elfmap" THEN 1 ELSE 0,
                !.base = (lc + 1) * 16 * PAGE,
                !.size = PAGE,
                !.filename = IF kind \in {"elfmap", "shlib", "filemap_exe", "filemap"}
                             THEN line.path.text ELSE @,
                !.textbase = IF kind = "elfmap" /\ (Has(line, "r-xp") \/ Has(line, "rwxp"))
                             THEN @ + 1 ELSE @,
                !.heap = IF kind = "heap" THEN @ + 1 ELSE @,
                !.stack = IF kind = "stack" THEN @ + 1 ELSE @,
                !.padding = IF kind = "padding" THEN @ + 1 ELSE @,
                !.vdso = IF kind = "vdso" THEN @ + 1 ELSE @,
                !.vsyscall = IF kind = "vsyscall" THEN @ + 1 ELSE @,
                !.shlib = IF kind = "shlib" THEN @ + 1 ELSE @,
                !.filemap_exe = IF kind = "filemap_exe" THEN @ + 1 ELSE @,
                !.filemap = IF kind = "filemap" THEN @ + 1 ELSE @,
                !.anonmap_exe = IF kind = "anonmap_exe" THEN @ + 1 ELSE @]

\* the thread stack branch: "maps[i].thread_stack++; maps[i].stack_tid =
\* atoi(q)" with i the number of characters copied to q; atoi stops at the
\* blank behind the 00 of the dev field
ThreadStack(maps, line, kind) ==
    IF kind = "thread_stack"
    THEN [maps EXCEPT ![Len(ColonToBracket(line))].thread_stack = @ + 1,
                      ![Len(ColonToBracket(line))].stack_tid = 0]
    ELSE maps

InitMaps ==
    /\ memdesc = [maps |-> [j \in 0..(MapSlots - 1) |->
                     [elfmap |-> 0, textbase |-> 0, heap |-> 0, stack |-> 0,
                      thread_stack |-> 0, stack_tid |-> 0, padding |-> 0, vdso |-> 0,
                      vsyscall |-> 0, shlib |-> 0, filemap_exe |-> 0, filemap |-> 0,
                      anonmap_exe |-> 0, special |-> 0, p_flags |-> 0, base |-> 0,
                      size |-> 0, filename |-> ""]],
                  exe_comm |-> "prog"]
    /\ handle = [lc |-> 0, before |-> <<>>]
    /\ procfs = [lines |-> <<>>]
    /\ pc = "maps"
    /\ outfile = <<>>
    /\ corefile = <<>>
    /\ core0 = <<>>
    /\ mi = 1
    /\ last = NoMerge
    /\ exe = <<>>
    /\ global_hacks = <<>>
    /\ ecfs_file = <<>>
    /\ text_shdr_index = 0

\* one turn of the loop: fgets gives a line.  Copying more than QSIZE
\* characters to q writes behind it, after which anything can follow: the
\* model lets the call go on or end.
GetMapsLine ==
    /\ pc = "maps"
    /\ handle.lc < MaxLines
    /\ \E line \in LineKinds :
          /\ (line.pad # 1) => line.path.text = "[stack:1234]"
          /\ procfs' = [lines |-> Append(procfs.lines, line)]
          /\ handle' = [lc |-> handle.lc + 1, before |-> memdesc.maps]
          /\ \E smashed \in {FALSE, MapKind(line, memdesc.exe_comm) = "thread_stack"
                                       /\ Len(ColonToBracket(line)) > QSIZE} :
                /\ pc' = IF smashed THEN "maps_crashed" ELSE "maps"
                /\ memdesc' =
                     IF smashed THEN memdesc
                     ELSE [memdesc EXCEPT !.maps =
                             [ThreadStack(
                                 [@ EXCEPT ![handle.lc] =
                                     MapRecord(@, line, handle.lc,
                                               MapKind(line, memdesc.exe_comm))],
                                 line, MapKind(line, memdesc.exe_comm))
                              EXCEPT ![handle.lc] = MapPerms(@, line)]]
    /\ UNCHANGED <<corefile, core0, mi, last, exe, global_hacks, ecfs_file,
                   text_shdr_index, outfile>>

\* fgets gives NULL: "return 0"
GetMapsReturn ==
    /\ pc = "maps"
    /\ pc' = "maps_done"
    /\ UNCHANGED <<corefile, core0, memdesc, mi, last, exe, handle, global_hacks,
                   ecfs_file, text_shdr_index, outfile, procfs>>

NextMaps == GetMapsLine \/ GetMapsReturn

SpecMaps == InitMaps /\ [][NextMaps]_vars

\* a line has been read and the loop body is through with it
LineDone == pc \in {"maps", "maps_done"} /\ handle.lc > 0

\* the line read last and the record with its index lc
CurLine == procfs.lines[handle.lc]
CurRec == memdesc.maps[handle.lc - 1]

\* the kinds among which the first three rules decide
Kinds17 == {"elfmap", "heap", "stack", "vdso", "vsyscall", "padding"}

\* C17: a line is classified by the first rule that applies, in the order
\* (1) path of the executable with perms other than ---p, (2) [heap],
\* [stack], [stack:TID], [vdso], [vsyscall], (3) perms ---p gives padding;
\* so a [vdso] or [vsyscall] line is vdso or vsyscall whatever its perms,
\* and a line of the executable with perms ---p is padding.
C17_RuleOrder ==
    LineDone =>
        LET kind ==
              IF CurLine.path.text = "/usr/bin/prog" /\ PermText(CurLine.perms) # "---p"
              THEN "elfmap"
              ELSE IF CurLine.path.text \in {"[heap]", "[stack]", "[vdso]", "[vsyscall]"}
              THEN CHOOSE k \in Kinds17 : CurLine.path.text = "[" \o k \o "]"
              ELSE IF CurLine.path.text = "[stack:1234]" THEN "thread_stack"
              ELSE IF PermText(CurLine.perms) = "---p" THEN "padding"
              ELSE "other"
        IN  \A k \in Kinds17 : CurRec[k] = (IF k = kind THEN 1 ELSE 0)

\* C18: a [stack:TID] line at line index lc marks record lc as thread stack
\* with stack_tid the decimal TID between ':' and ']', and changes the kind
\* and stack_tid of no other record.
C18_ThreadStackAtLc ==
    (LineDone /\ CurLine.path.text = "[stack:1234]") =>
        /\ CurRec.thread_stack = 1
        /\ CurRec.stack_tid = 1234
        /\ \A j \in DOMAIN memdesc.maps :
              j # handle.lc - 1 => memdesc.maps[j] = handle.before[j]

\* C19: a line with a file path that is not the executable, not a .so
\* library and not a bracketed name, with perms other than ---p, is file-exe
\* when the perms include x and file-regular otherwise.
C19_FileExeByPerms ==
    (/\ LineDone
     /\ CurLine.path.text \in {"/usr/share/data.bin", "/tmp/r-xp"}
     /\ PermText(CurLine.perms) # "---p") =>
        /\ CurRec.filemap_exe = (IF CurLine.perms.x THEN 1 ELSE 0)
        /\ CurRec.filemap = (IF CurLine.perms.x THEN 0 ELSE 1)

\* C20: the stored permission flags are exactly R if 'r', W if 'w', X if 'x'
\* stands in the perms field, for private and shared mappings alike, and a
\* mapping with a share marker other than 'p' is marked special as well.
C20_FlagsOfPerms ==
    LineDone =>
        /\ CurRec.p_flags = (IF CurLine.perms.r THEN PF_R ELSE 0)
                              + (IF CurLine.perms.w THEN PF_W ELSE 0)
                              + (IF CurLine.perms.x THEN PF_X ELSE 0)
        /\ CurLine.perms.s => CurRec.special = 1

\* what holds: the flags of a private mapping whose path holds no text that
\* reads like a perms field
FlagsOfPrivate ==
    (LineDone /\ ~CurLine.perms.s /\ CurLine.path.has \cap {"r-xp"} = {}) =>
        CurRec.p_flags = (IF CurLine.perms.r THEN PF_R ELSE 0)
                           + (IF CurLine.perms.w THEN PF_W ELSE 0)
                           + (IF CurLine.perms.x THEN PF_X ELSE 0)

-----------------------------------------------------------------------------
(* The text merges on a core whose program header table ends with the      *)
(* header of a text: that of the executable (2 headers) or that of the     *)
(* first library (4 headers).                                               *)

InitLast ==
    \E tp \in [0..MaxLibs -> 1..MaxTextPages], filt \in Filters,
       cut \in {2, 4}, tb \in {0, SegVaddr(1)} :
        /\ core0 = [KernelCore(MaxLibs, tp, filt, 0) EXCEPT !.phdr = SubSeq(@, 1, cut)]
        /\ corefile = core0
        /\ memdesc = [text |-> [base |-> tb, size |-> tp[0] * PAGE],
                      textseg |-> "exe", maps |-> Maps(MaxLibs, tp)]
        /\ pc = "exe"
        /\ mi = 1
        /\ last = NoMerge
        /\ exe = <<>>
        /\ handle = <<>>
        /\ global_hacks = <<>>
        /\ ecfs_file = <<>>
        /\ text_shdr_index = 0
        /\ outfile = <<>>
        /\ procfs = <<>>

SpecLast == InitLast /\ [][Next]_vars

\* the last merge call found its text in the last header of the table
TextHeaderIsLast ==
    last.op \in {"exe", "lib"} /\ last.idx > 0 /\ last.idx = Len(last.pre.phdr)

\* C21: when the header that matches the text address is the last of the
\* table, the text merge returns an error, reads no header beyond index
\* e_phnum - 1 and does not replace the core file.
C21_LastHeaderIsAnError ==
    TextHeaderIsLast =>
        /\ last.ret = -1
        /\ ~last.beyond
        /\ ~last.renamed /\ corefile = last.pre

\* what the code does: it reads the p_offset of the header behind the table
\* and, unless the last write fails, puts the rewritten file in place
LastHeaderReadsBeyond ==
    TextHeaderIsLast =>
        /\ last.beyond
        /\ last.ret = 0 => (last.renamed /\ corefile # last.pre)

-----------------------------------------------------------------------------
(* Libraries without a program header *)

\* the core the call worked on has a header at the address of mapping k
HeaderOf(phdr, k) == {i \in DOMAIN phdr : phdr[i].p_vaddr = memdesc.maps[k].base}

\* the executable library mappings of the process
ExecLibs == {k \in DOMAIN memdesc.maps :
                memdesc.maps[k].shlib /\ HasFlag(memdesc.maps[k].p_flags, PF_X)}

\* C22: when no program header has the p_vaddr of a library's text,
\* merge_text_image fails and renames nothing over the core;
\* merge_shlib_texts_into_core goes on with the next mapping and still
\* merges every later executable library mapping.
C22_MissingHeaderSkipsLibrary ==
    /\ (last.op = "lib" /\ HeaderOf(last.pre.phdr, last.mapi) = {}) =>
          /\ last.ret = -1 /\ ~last.renamed /\ corefile = last.pre
          /\ pc \in {"libs", "merged"}
    /\ pc = "merged" =>
          \A k \in ExecLibs : \A i \in HeaderOf(corefile.phdr, k) :
              corefile.phdr[i].p_filesz = corefile.phdr[i].p_memsz

\* C22 witness: the first library has no header, the second one had less
\* than its text in the kernel's core and has been merged
C22_Witness ==
    /\ pc = "merged"
    /\ \E k \in ExecLibs : HeaderOf(core0.phdr, k) = {}
    /\ \E k \in ExecLibs : \E i \in HeaderOf(core0.phdr, k) :
          /\ \E j \in ExecLibs : j < k /\ HeaderOf(core0.phdr, j) = {}
          /\ core0.phdr[i].p_filesz < core0.phdr[i].p_memsz
          /\ corefile.phdr[i].p_filesz = corefile.phdr[i].p_memsz

-----------------------------------------------------------------------------
(* load_core_file *)

MaxPhnum == 3        \* program headers of a file given to load_core_file

ElfTypes == {"ET_CORE", "ET_EXEC", "ET_DYN"}
PTypes == {"PT_NOTE", "PT_LOAD"}
NoteSizes == {0, 1024}
\* what a field of a fresh heapAlloc block, or the memory behind the program
\* header table, may hold
HeapGarbage == {0, PAGE}

\* the files load_core_file may be given: e_type, the p_type of every header
\* and the p_filesz of the notes; `opens` and `stats` are the results of
\* open(2) and fstat(2)
InitLoad ==
    \E et \in ElfTypes, n \in 0..MaxPhnum, ns \in NoteSizes, opens \in BOOLEAN,
       stats \in BOOLEAN :
    \E pt \in [1..n -> PTypes] :
        /\ corefile = [e_type |-> et, opens |-> opens, stats |-> stats,
                       phdr |-> [i \in 1..n |->
                                   [p_type |-> pt[i], p_offset |-> i * PAGE,
                                    p_filesz |-> IF pt[i] = "PT_NOTE" THEN ns ELSE PAGE,
                                    p_memsz |-> IF pt[i] = "PT_NOTE" THEN 0 ELSE 2 * PAGE]]]
        /\ handle = [ret |-> "none"]
        /\ pc = "load"
        /\ core0 = <<>> /\ memdesc = <<>> /\ mi = 0 /\ last = <<>> /\ exe = <<>>
        /\ global_hacks = <<>> /\ ecfs_file = <<>> /\ text_shdr_index = 0
        /\ outfile = <<>> /\ procfs = <<>>

\* the first PT_NOTE of the table, 0 when there is none ('break' at the first)
RECURSIVE FirstNote(_, _)
FirstNote(phdr, i) ==
    IF i > Len(phdr) THEN 0
    ELSE IF phdr[i].p_type = "PT_NOTE" THEN i ELSE FirstNote(phdr, i + 1)

\* phdr[i + 1].<field>: the header table is not checked for its end
PhdrFieldAfter(phdr, i, field) ==
    IF i + 1 <= Len(phdr) THEN {phdr[i + 1][field]} ELSE HeapGarbage

\* open or fstat fails: NULL
LoadCoreFileNoFile ==
    /\ pc = "load"
    /\ ~corefile.opens \/ ~corefile.stats
    /\ handle' = [ret |-> "NULL"]
    /\ pc' = "load_failed"
    /\ UNCHANGED <<corefile, core0, memdesc, mi, last, exe, global_hacks,
                   ecfs_file, text_shdr_index, outfile, procfs>>

\* e_type is not ET_CORE: NULL
LoadCoreFileNotCore ==
    /\ pc = "load"
    /\ corefile.opens /\ corefile.stats
    /\ corefile.e_type # "ET_CORE"
    /\ handle' = [ret |-> "NULL"]
    /\ pc' = "load_failed"
    /\ UNCHANGED <<corefile, core0, memdesc, mi, last, exe, global_hacks,
                   ecfs_file, text_shdr_index, outfile, procfs>>

\* the loop over the program headers and the return of the descriptor
LoadCoreFile ==
    /\ pc = "load"
    /\ corefile.opens /\ corefile.stats
    /\ corefile.e_type = "ET_CORE"
    /\ \E i \in {FirstNote(corefile.phdr, 1)} :
          IF i > 0
          THEN \E fsz \in PhdrFieldAfter(corefile.phdr, i, "p_filesz"),
                  msz \in PhdrFieldAfter(corefile.phdr, i, "p_memsz") :
                 handle' = [ret |-> "elfdesc", nhdr |-> corefile.phdr[i].p_offset,
                            noteSize |-> corefile.phdr[i].p_filesz,
                            text_filesz |-> fsz, text_memsz |-> msz]
          ELSE \E g \in HeapGarbage, fsz \in HeapGarbage, msz \in HeapGarbage :
                 handle' = [ret |-> "elfdesc", nhdr |-> "NULL", noteSize |-> g,
                            text_filesz |-> fsz, text_memsz |-> msz]
    /\ pc' = "loaded"
    /\ UNCHANGED <<corefile, core0, memdesc, mi, last, exe, global_hacks,
                   ecfs_file, text_shdr_index, outfile, procfs>>

NextLoad == LoadCoreFileNoFile \/ LoadCoreFileNotCore \/ LoadCoreFile
SpecLoad == InitLoad /\ [][NextLoad]_vars

HasNote(phdr) == \E i \in DOMAIN phdr : phdr[i].p_type = "PT_NOTE"

\* C23: load_core_file returns no descriptor for a file that is not a core
\* and for a core without a PT_NOTE header; a descriptor is returned only
\* with the note pointer and the note size of a PT_NOTE header in it.
C23_MalformedCoreIsRefused ==
    pc \in {"loaded", "load_failed"} =>
        /\ (corefile.e_type # "ET_CORE" \/ ~HasNote(corefile.phdr)) => handle.ret = "NULL"
        /\ handle.ret = "elfdesc" =>
              \E i \in DOMAIN corefile.phdr :
                  /\ corefile.phdr[i].p_type = "PT_NOTE"
                  /\ handle.nhdr = corefile.phdr[i].p_offset
                  /\ handle.noteSize = corefile.phdr[i].p_filesz

\* what holds instead: a file that is not a core is refused, and a core
\* without PT_NOTE comes back as a descriptor whose note pointer is NULL
LoadRefusesOnlyNonCore ==
    pc \in {"loaded", "load_failed"} =>
        /\ corefile.e_type # "ET_CORE" => handle.ret = "NULL"
        /\ (corefile.opens /\ corefile.stats /\ corefile.e_type = "ET_CORE"
              /\ ~HasNote(corefile.phdr)) =>
                 handle.ret = "elfdesc" /\ handle.nhdr = "NULL"

-----------------------------------------------------------------------------
(* The bounds of the note walk *)

\* the offset in the note region at which entry k of the walk starts:
\* ELFNOTE_NEXT of the entries before it
StartOf(seen, k) == NotesBytes(SubSeq(seen, 1, k - 1))

\* C24: parse_notes_area visits every note inside the region of noteSize
\* bytes exactly once, in file order, and never decodes an entry that starts
\* at or beyond noteSize bytes from the start of the region.
C24_WalkStaysInRegion ==
    pc \in {"notes", "notes_done"} =>
        /\ \A k \in 1..Len(handle.seen) :
              StartOf(handle.seen, k) < handle.elfdesc.noteSize
        /\ pc = "notes_done" => handle.seen = corefile.notes

\* what holds instead: the notes of the region are visited once each and in
\* order, and whenever the region holds a note the walk decodes at least one
\* entry that starts at or behind its end
WalkOverrunsRegion ==
    pc = "notes_done" =>
        /\ SubSeq(handle.seen, 1, Len(corefile.notes)) = corefile.notes
        /\ corefile.notes # <<>> =>
              /\ Len(handle.seen) > Len(corefile.notes)
              /\ StartOf(handle.seen, Len(handle.seen)) >= handle.elfdesc.noteSize

-----------------------------------------------------------------------------
(* The file offset of .plt *)

MaxInitSkew == 15    \* initVaddr lies up to this many bytes behind Lay.init_at
MaxInitSize == 32    \* size of .init as the section header of the file gives it

\* .init anywhere in the 16 bytes behind Lay.init_at, of any size; size 0 or
\* less stands for a section get_original_shdr_size did not find
InitPlt ==
    \E skew \in 0..MaxInitSkew, size \in -1..MaxInitSize :
        /\ handle = [smeta |-> [initVaddr |-> SegVaddr(1) + Lay.init_at + skew,
                                initOff |-> PAGE + Lay.init_at + skew]]
        /\ global_hacks = [init_size |-> size]
        /\ outfile = [shdr |-> <<>>]
        /\ pc = "plt"
        /\ corefile = <<>> /\ core0 = <<>> /\ memdesc = <<>> /\ mi = 0
        /\ last = <<>> /\ exe = <<>> /\ ecfs_file = <<>> /\ text_shdr_index = 0
        /\ procfs = <<>>

\* the .plt header of build_section_headers
BuildPlt ==
    /\ pc = "plt"
    /\ outfile' = [shdr |-> <<[name |-> ".plt",
                               sh_offset |-> PltOffset(handle.smeta, global_hacks)]>>]
    /\ pc' = "plt_done"
    /\ UNCHANGED <<corefile, core0, memdesc, mi, last, exe, handle, global_hacks,
                   ecfs_file, text_shdr_index, procfs>>

NextPlt == BuildPlt
SpecPlt == InitPlt /\ [][NextPlt]_vars

\* rounding up to a multiple of 16
Align16(x) == ((x + 15) \div 16) * 16

\* the address at which .init ends
InitEnd == handle.smeta.initVaddr + Fallback(global_hacks.init_size)

\* C25: sh_offset of .plt is initOff + initSize + (align16(initVaddr +
\* initSize) - (initVaddr + initSize)), align16 leaving a value that is
\* already a multiple of 16 unchanged.
C25_PltOffsetAligned ==
    pc = "plt_done" =>
        outfile.shdr[1].sh_offset =
            handle.smeta.initOff + Fallback(global_hacks.init_size)
              + (Align16(InitEnd) - InitEnd)

\* what holds instead: the gap is 16 - (end of .init mod 16), between 1 and
\* 16, and it is 16 where .init ends on a multiple of 16
PltGapNeverZero ==
    pc = "plt_done" =>
        /\ outfile.shdr[1].sh_offset =
              handle.smeta.initOff + Fallback(global_hacks.init_size)
                + (16 - (InitEnd % 16))
        /\ InitEnd % 16 # 0 =>
              outfile.shdr[1].sh_offset =
                  handle.smeta.initOff + Fallback(global_hacks.init_size)
                    + (Align16(InitEnd) - InitEnd)

-----------------------------------------------------------------------------
(* The system calls on the output file: core2ecfs from the section header  *)
(* table on, with build_section_headers and                                 *)
(* build_local_symtab_and_finalize. `handle` holds the descriptor table,    *)
(* the three descriptor variables, the live mappings and the history of     *)
(* the calls; `mi` is the position in OutputCalls.                          *)

MaxOtherFds == 2     \* descriptors the process holds besides 0, 1 and 2
MaxScount == 3       \* section headers written by the loop at line 2196

\* The calls in program order. var is the variable that holds the
\* descriptor: "fd" of core2ecfs, which build_section_headers gets by value
\* as "bfd", and "sfd" of build_local_symtab_and_finalize. fail is what a
\* failure of the call leads to in the code.
OutputCalls ==
    <<[op |-> "open",   var |-> "fd",  fail |-> "none",   loop |-> FALSE],  \* 2252
      [op |-> "call",   var |-> "bfd", fail |-> "none",   loop |-> FALSE],  \* 2340
      [op |-> "write",  var |-> "bfd", fail |-> "none",   loop |-> TRUE],   \* 2196-2198
      [op |-> "write",  var |-> "bfd", fail |-> "exit",   loop |-> FALSE],  \* 2200-2204
      [op |-> "fsync",  var |-> "bfd", fail |-> "none",   loop |-> FALSE],  \* 2205
      [op |-> "close",  var |-> "bfd", fail |-> "none",   loop |-> FALSE],  \* 2206
      [op |-> "open",   var |-> "bfd", fail |-> "none",   loop |-> FALSE],  \* 2208
      [op |-> "mmap",   var |-> "bfd", fail |-> "exit",   loop |-> FALSE],  \* 2215
      [op |-> "store",  var |-> "bfd", fail |-> "none",   loop |-> FALSE],  \* 2222-2227
      [op |-> "msync",  var |-> "bfd", fail |-> "none",   loop |-> FALSE],  \* 2229
      [op |-> "munmap", var |-> "bfd", fail |-> "none",   loop |-> FALSE],  \* 2230
      [op |-> "close",  var |-> "bfd", fail |-> "none",   loop |-> FALSE],  \* 2232
      [op |-> "close",  var |-> "fd",  fail |-> "none",   loop |-> FALSE],  \* 2342
      [op |-> "open",   var |-> "fd",  fail |-> "none",   loop |-> FALSE],  \* 2347
      [op |-> "mmap",   var |-> "fd",  fail |-> "return", loop |-> FALSE],  \* 2349
      [op |-> "store",  var |-> "fd",  fail |-> "none",   loop |-> FALSE],  \* 2355-2357
      [op |-> "munmap", var |-> "fd",  fail |-> "none",   loop |-> FALSE],  \* 2358
      [op |-> "close",  var |-> "fd",  fail |-> "none",   loop |-> FALSE],  \* 2359
      [op |-> "open",   var |-> "sfd", fail |-> "exit",   loop |-> FALSE],  \* 1477
      [op |-> "mmap",   var |-> "sfd", fail |-> "exit",   loop |-> FALSE],  \* 1487
      [op |-> "write",  var |-> "sfd", fail |-> "exit",   loop |-> FALSE],  \* 1501-1514
      [op |-> "store",  var |-> "sfd", fail |-> "none",   loop |-> FALSE],  \* 1518-1538
      [op |-> "msync",  var |-> "sfd", fail |-> "none",   loop |-> FALSE],  \* 1542
      [op |-> "munmap", var |-> "sfd", fail |-> "none",   loop |-> FALSE],  \* 1543
      [op |-> "close",  var |-> "sfd", fail |-> "none",   loop |-> FALSE]>> \* 1544

\* the call the program is at
Call == OutputCalls[mi]
AtCall(op) == pc = "calls" /\ mi <= Len(OutputCalls) /\ Call.op = op

\* open(2) returns the lowest descriptor that is not in use
LowestFree(fds) == CHOOSE n \in 0..(Cardinality(fds)) : n \notin fds /\ \A k \in 0..(n - 1) : k \in fds

InitCalls ==
    \E other \in 0..MaxOtherFds, scount \in 1..MaxScount :
        /\ handle = [fds |-> 0..(2 + other), fd |-> -1, bfd |-> -1, sfd |-> -1,
                     maps |-> {}, synced |-> {}, i |-> 0,
                     opened |-> 0, closed |-> 0, ebadf |-> 0, unsynced |-> 0]
        /\ outfile = [scount |-> scount]
        /\ core0 = [fds |-> 0..(2 + other)]
        /\ pc = "calls" /\ mi = 1
        /\ corefile = <<>> /\ memdesc = <<>> /\ last = <<>> /\ exe = <<>>
        /\ global_hacks = <<>> /\ ecfs_file = <<>> /\ text_shdr_index = 0
        /\ procfs = <<>>

\* xopen and open; build_section_headers is entered with a copy of fd
SysOpen ==
    /\ AtCall("open")
    /\ \E n \in {LowestFree(handle.fds)} :
          \/ /\ handle' = [handle EXCEPT ![Call.var] = n, !.fds = @ \cup {n},
                                         !.opened = @ + 1]
             /\ pc' = pc /\ mi' = mi + 1
          \/ /\ Call.fail = "exit"
             /\ handle' = handle /\ pc' = "exited" /\ mi' = mi
    /\ UNCHANGED <<corefile, core0, memdesc, last, exe, global_hacks, ecfs_file,
                   text_shdr_index, outfile, procfs>>

\* build_section_headers(fd, ...): the descriptor is passed by value
EnterBuildSectionHeaders ==
    /\ AtCall("call")
    /\ handle' = [handle EXCEPT ![Call.var] = handle.fd]
    /\ pc' = pc /\ mi' = mi + 1
    /\ UNCHANGED <<corefile, core0, memdesc, last, exe, global_hacks, ecfs_file,
                   text_shdr_index, outfile, procfs>>

\* write: the loop over the section headers logs a failure and goes on, the
\* other writes exit on one
SysWrite ==
    /\ AtCall("write")
    /\ \/ /\ Call.loop /\ handle.i + 1 < outfile.scount
          /\ handle' = [handle EXCEPT !.i = @ + 1]
          /\ pc' = pc /\ mi' = mi
       \/ /\ ~(Call.loop /\ handle.i + 1 < outfile.scount)
          /\ handle' = [handle EXCEPT !.i = 0]
          /\ pc' = pc /\ mi' = mi + 1
       \/ /\ Call.fail = "exit"
          /\ handle' = handle /\ pc' = "exited" /\ mi' = mi
    /\ UNCHANGED <<corefile, core0, memdesc, last, exe, global_hacks, ecfs_file,
                   text_shdr_index, outfile, procfs>>

SysFsync ==
    /\ AtCall("fsync")
    /\ pc' = pc /\ mi' = mi + 1
    /\ UNCHANGED <<corefile, core0, memdesc, last, exe, handle, global_hacks,
                   ecfs_file, text_shdr_index, outfile, procfs>>

\* close of a descriptor that is not open fails with EBADF
SysClose ==
    /\ AtCall("close")
    /\ handle' = IF handle[Call.var] \in handle.fds
                 THEN [handle EXCEPT !.fds = @ \ {handle[Call.var]}, !.closed = @ + 1]
                 ELSE [handle EXCEPT !.ebadf = @ + 1]
    /\ pc' = pc /\ mi' = mi + 1
    /\ UNCHANGED <<corefile, core0, memdesc, last, exe, global_hacks, ecfs_file,
                   text_shdr_index, outfile, procfs>>

\* mmap of the output; on MAP_FAILED core2ecfs returns -1 with its
\* descriptor open, the two other functions exit
SysMmap ==
    /\ AtCall("mmap")
    /\ \/ /\ handle' = [handle EXCEPT !.maps = @ \cup {mi}]
          /\ pc' = pc /\ mi' = mi + 1
       \/ /\ handle' = handle /\ mi' = mi
          /\ pc' = IF Call.fail = "return" THEN "returned" ELSE "exited"
    /\ UNCHANGED <<corefile, core0, memdesc, last, exe, global_hacks, ecfs_file,
                   text_shdr_index, outfile, procfs>>

\* stores through the mapping: the ELF header and the section headers
SysStore ==
    /\ AtCall("store")
    /\ handle' = [handle EXCEPT !.synced = {}]
    /\ pc' = pc /\ mi' = mi + 1
    /\ UNCHANGED <<corefile, core0, memdesc, last, exe, global_hacks, ecfs_file,
                   text_shdr_index, outfile, procfs>>

SysMsync ==
    /\ AtCall("msync")
    /\ handle' = [handle EXCEPT !.synced = handle.maps]
    /\ pc' = pc /\ mi' = mi + 1
    /\ UNCHANGED <<corefile, core0, memdesc, last, exe, global_hacks, ecfs_file,
                   text_shdr_index, outfile, procfs>>

SysMunmap ==
    /\ AtCall("munmap")
    /\ handle' = [handle EXCEPT !.maps = {}, !.synced = {},
                                !.unsynced = @ + Cardinality(handle.maps \ handle.synced)]
    /\ pc' = pc /\ mi' = mi + 1
    /\ UNCHANGED <<corefile, core0, memdesc, last, exe, global_hacks, ecfs_file,
                   text_shdr_index, outfile, procfs>>

\* build_local_symtab_and_finalize and core2ecfs return 0
CallsReturn ==
    /\ pc = "calls" /\ mi > Len(OutputCalls)
    /\ pc' = "calls_done"
    /\ UNCHANGED <<corefile, core0, memdesc, mi, last, exe, handle, global_hacks,
                   ecfs_file, text_shdr_index, outfile, procfs>>

NextCalls ==
    \/ SysOpen \/ EnterBuildSectionHeaders \/ SysWrite \/ SysFsync \/ SysClose \/ SysMmap
    \/ SysStore \/ SysMsync \/ SysMunmap \/ CallsReturn

SpecCalls == InitCalls /\ [][NextCalls]_vars

\* C26: in each of the three open/mmap/munmap/close cycles on the output
\* (header patch in build_section_headers, e_shoff/e_shnum patch in
\* core2ecfs, symtab injection) msync is called before munmap, at most one
\* mapping of the output is live at a time, and every descriptor is closed
\* exactly once.
C26_CyclesSyncAndClose ==
    [](/\ Cardinality(handle.maps) <= 1
       /\ handle.unsynced = 0
       /\ handle.ebadf = 0
       /\ pc \in {"calls_done", "returned"} =>
             handle.fds = core0.fds /\ handle.closed = handle.opened)

\* what holds instead: never two mappings; on a complete run the mapping of
\* core2ecfs is unmapped without msync, and close is called once on a
\* descriptor that is closed already (line 2342, after the close at 2206)
OneMappingOneStrayClose ==
    /\ Cardinality(handle.maps) <= 1
    /\ pc = "calls_done" =>
          /\ handle.unsynced = 1 /\ handle.ebadf = 1
          /\ handle.fds = core0.fds /\ handle.closed = handle.opened
    /\ pc = "returned" => handle.fds # core0.fds

-----------------------------------------------------------------------------
(* The executable's text base outside every program header *)

\* the call of merge_exe_text_into_core found no header whose range holds
\* the text base
NoCoveringHeader ==
    /\ last.op = "exe"
    /\ \A i \in DOMAIN last.pre.phdr : ~ExeMatches(last.pre.phdr[i], memdesc.text.base)

\* C27: merge_exe_text_into_core returns failure and leaves the core
\* unmodified when no program header's range [p_vaddr, p_vaddr + p_memsz)
\* holds the text base; no rewritten file is renamed over the core.
C27_NoCoveringHeaderFails ==
    NoCoveringHeader => last.ret = -1 /\ ~last.renamed /\ corefile = last.pre

\* what holds instead: only a text base of 0 is refused; with any other
\* base outside every header the function returns 0 and the core has been
\* replaced by the text followed by a copy of the whole old file
NoCoveringHeaderClobbers ==
    NoCoveringHeader =>
        IF memdesc.text.base = 0
        THEN last.ret = -1 /\ ~last.renamed /\ corefile = last.pre
        ELSE /\ last.ret = 0 /\ last.renamed /\ pc = "clobbered"
             /\ corefile.data = Cat(<<Ext(memdesc.textseg, 0, memdesc.text.size)>>,
                                    last.pre.data)

-----------------------------------------------------------------------------
(* The bytes behind the merged text *)

\* the bytes of segment h in a file
SegmentBytes(data, h) == Slice(data, h.p_offset, h.p_offset + h.p_filesz)

\* the headers behind the merged one hold, at their new p_offset, the bytes
\* they held at their old one
LaterSegmentsKeepBytes ==
    \A j \in DOMAIN last.pre.phdr :
        (j > last.idx /\ j <= Len(corefile.phdr)) =>
            SegmentBytes(corefile.data, corefile.phdr[j])
                = SegmentBytes(last.pre.data, last.pre.phdr[j])

\* C28: after a text merge every program header behind the merged one finds
\* at its new p_offset the bytes that were at its old p_offset before the
\* merge, for every text_len and every distance between the p_offset of the
\* text header and that of its successor.
C28_LaterSegmentsKeepBytes == Merged1 => LaterSegmentsKeepBytes

\* what holds instead: in a merge into the kernel's core the bytes are kept
\* where the successor's p_offset is one page behind that of the text
\* header, and only there
BytesKeptIffOnePage ==
    (Merged1 /\ last.pre = core0 /\ last.idx < Len(last.pre.phdr)) =>
        (LaterSegmentsKeepBytes <=> last.nextOffset - last.textOffset = PAGE)

-----------------------------------------------------------------------------
(* create_shlib_text_mappings before the merges: the text of a library is  *)
(* read from the memory of the process, and the read can fail.              *)

\* the mapping list as the maps parser leaves it: no text captured yet
InitCapture ==
    \E tp \in [0..MaxLibs -> 1..MaxTextPages], filt \in Filters,
       tb \in {0, SegVaddr(1)} :
        /\ core0 = KernelCore(MaxLibs, tp, filt, 0)
        /\ corefile = core0
        /\ memdesc = [text |-> [base |-> tb, size |-> tp[0] * PAGE],
                      textseg |-> "exe",
                      maps |-> [k \in 1..NSegs(MaxLibs) |->
                                  [Mapping(k, MaxLibs, tp) EXCEPT !.text_image = "",
                                                                  !.text_len = 0]]]
        /\ pc = "capture" /\ mi = 1 /\ last = NoMerge /\ exe = <<>> /\ handle = <<>>
        /\ global_hacks = <<>> /\ ecfs_file = <<>> /\ text_shdr_index = 0
        /\ outfile = <<>> /\ procfs = <<>>

\* one mapping of the loop of create_shlib_text_mappings; tlen is the result
\* of get_segment_from_pmem, which has set text_image before it read
CaptureText(m, tlen) ==
    IF ~m.shlib \/ ~HasFlag(m.p_flags, PF_X) THEN m
    ELSE IF tlen < 0 THEN [m EXCEPT !.text_image = "unread"]
         ELSE [m EXCEPT !.text_image = LibNames[SegLib(CHOOSE k \in 1..NSegs(MaxLibs) :
                                                          SegVaddr(k) = m.base)],
                        !.text_len = tlen]

\* create_shlib_text_mappings: every read gives the whole mapping or fails
CreateShlibTextMappings ==
    /\ pc = "capture"
    /\ \E ok \in [DOMAIN memdesc.maps -> BOOLEAN] :
          memdesc' = [memdesc EXCEPT !.maps =
                        [k \in DOMAIN memdesc.maps |->
                           CaptureText(memdesc.maps[k],
                                       IF ok[k] THEN memdesc.maps[k].size ELSE -1)]]
    /\ pc' = "exe"
    /\ UNCHANGED <<corefile, core0, mi, last>>
    /\ UNCHANGED ecfsVars
    /\ UNCHANGED procfs

NextCapture == CreateShlibTextMappings \/ Next
SpecCapture == InitCapture /\ [][NextCapture]_vars

\* the text of mapping k was captured
Captured(k) ==
    /\ memdesc.maps[k].text_image \notin {"", "unread"}
    /\ memdesc.maps[k].text_len = memdesc.maps[k].size

\* C29 as stated: merge_text_image is called only for library mappings
\* whose text was captured (text_image set, text_len the mapping size).
C29_OnlyCapturedAreCalled ==
    last.op = "lib" => Captured(last.mapi)

\* C29 as amended: merge_text_image is called for every executable library
\* mapping; for one whose read failed text_len is 0, the call fails before
\* the rename and the core is left as it was, so the offsets of the program
\* headers move only by captured lengths.
C29_FailedReadIsNotMerged ==
    /\ (last.op = "lib" /\ ~Captured(last.mapi)) =>
          /\ last.tlen = 0 /\ last.ret = -1 /\ ~last.renamed
          /\ corefile = last.pre
    /\ (last.op = "lib" /\ last.renamed) =>
          /\ Captured(last.mapi)
          /\ last.tlen = memdesc.maps[last.mapi].size
    /\ pc = "merged" => mi > Len(memdesc.maps)

\* C29 witness: the read of the first library failed and its call left the
\* core alone, the second library was merged after it
C29_Witness ==
    /\ pc = "merged" /\ last.op = "lib" /\ last.renamed
    /\ \E k \in ExecLibs : k < last.mapi /\ ~Captured(k)
    /\ \E k \in ExecLibs : \E i \in HeaderOf(core0.phdr, k) :
          /\ ~Captured(k) /\ core0.phdr[i].p_filesz < core0.phdr[i].p_memsz
          /\ corefile.phdr[i].p_filesz = core0.phdr[i].p_filesz

-----------------------------------------------------------------------------
(* get_fd_links: one record per entry of /proc/<pid>/fd.  procfs holds the  *)
(* links of the directory and the two socket tables; handle holds the       *)
(* records, fdcount and the local fdinfo_tmp.                               *)

MaxFds == 3          \* open descriptors of the process

\* what a link of /proc/<pid>/fd points at: a file, or "socket:[inode]";
\* inode MaxInode + 1 stands in no table
FdKinds ==
    {[sock |-> FALSE, inode |-> 0]}
      \cup {[sock |-> TRUE, inode |-> n] : n \in 1..(MaxInode + 1)}

NoSocket == [src_addr |-> 0, dst_addr |-> 0, src_port |-> 0, dst_port |-> 0]

\* fdinfo_tmp is a local that is never initialised: zero, or what the stack
\* held
StackGarbage ==
    {[net |-> "0", socket |-> NoSocket],
     [net |-> "NET_TCP", socket |-> [src_addr |-> 999, dst_addr |-> 999,
                                     src_port |-> 999, dst_port |-> 999]]}

InitFds ==
    \E n \in 0..MaxFds, nt \in 0..1, nu \in 0..1, g \in StackGarbage :
    \E links \in [1..n -> FdKinds], it \in [1..nt -> 1..MaxInode],
       iu \in [1..nu -> 1..MaxInode] :
        /\ procfs = [links |-> links, tcp |-> SockTable(it, 100),
                     udp |-> SockTable(iu, 200)]
        /\ handle = [fdinfo |-> <<>>, fdcount |-> 0, fdinfo_tmp |-> g]
        /\ core0 = [fdinfo_tmp |-> g]
        /\ pc = "fds"
        /\ corefile = <<>> /\ memdesc = <<>> /\ mi = 0 /\ last = <<>> /\ exe = <<>>
        /\ global_hacks = <<>> /\ ecfs_file = <<>> /\ text_shdr_index = 0
        /\ outfile = <<>>

\* the record of one link: heapAlloc'ed and zero, then "if (fdinfo_tmp.net)"
FdRecord(link, fd, tmp) ==
    IF link.sock /\ tmp.net # "0"
    THEN [fd |-> fd, sock |-> link.sock, inode |-> link.inode,
          net |-> tmp.net, socket |-> tmp.socket]
    ELSE [fd |-> fd, sock |-> link.sock, inode |-> link.inode,
          net |-> "0", socket |-> NoSocket]

\* fdinfo_tmp behind the body of the loop
TmpAfter(link, tmp) ==
    IF link.sock THEN fill_sock_info(tmp, link.inode, procfs.tcp, procfs.udp)
    ELSE tmp

\* one entry of the directory
GetFdLink ==
    /\ pc = "fds"
    /\ handle.fdcount < Len(procfs.links)
    /\ \E tmp \in {TmpAfter(procfs.links[handle.fdcount + 1], handle.fdinfo_tmp)} :
          handle' = [fdinfo |-> Append(handle.fdinfo,
                                       FdRecord(procfs.links[handle.fdcount + 1],
                                                handle.fdcount + 3, tmp)),
                     fdcount |-> handle.fdcount + 1,
                     fdinfo_tmp |-> tmp]
    /\ UNCHANGED <<pc, corefile, core0, memdesc, mi, last, exe, global_hacks,
                   ecfs_file, text_shdr_index, outfile, procfs>>

\* readdir returns NULL: get_fd_links returns fdcount
GetFdLinksReturn ==
    /\ pc = "fds"
    /\ handle.fdcount >= Len(procfs.links)
    /\ pc' = "fds_done"
    /\ UNCHANGED <<corefile, core0, memdesc, mi, last, exe, handle, global_hacks,
                   ecfs_file, text_shdr_index, outfile, procfs>>

NextFds == GetFdLink \/ GetFdLinksReturn
SpecFds == InitFds /\ [][NextFds]_vars

\* what the lookup of the inode alone gives
OwnLookup(inode) ==
    fill_sock_info([net |-> "0", socket |-> NoSocket], inode, procfs.tcp, procfs.udp)

\* C30: the protocol and the address and port fields of a descriptor come
\* from the lookup of its own inode alone; a socket whose inode stands in
\* neither table has no protocol tag and no address fields, whatever
\* descriptors came before it.
C30_SockInfoIsOwnLookup ==
    pc \in {"fds", "fds_done"} =>
        \A k \in DOMAIN handle.fdinfo :
            handle.fdinfo[k].sock =>
                /\ handle.fdinfo[k].net = OwnLookup(handle.fdinfo[k].inode).net
                /\ handle.fdinfo[k].socket = OwnLookup(handle.fdinfo[k].inode).socket

\* the last socket among the first k - 1 links whose inode stands in a table
RECURSIVE LastFound(_)
LastFound(k) ==
    IF k = 0 THEN 0
    ELSE IF procfs.links[k].sock /\ OwnLookup(procfs.links[k].inode).net # "0"
         THEN k ELSE LastFound(k - 1)

\* what holds instead: a socket found in a table has its own fields; one
\* that is not found has the fields of the last socket before it that was
\* found, and before any was found those of the uninitialised local
UnmatchedSocketInherits ==
    pc \in {"fds", "fds_done"} =>
        \A k \in DOMAIN handle.fdinfo :
            handle.fdinfo[k].sock =>
                LET own == OwnLookup(handle.fdinfo[k].inode)
                    prev == LastFound(k - 1)
                    src == IF own.net # "0" THEN own
                           ELSE IF prev > 0 THEN OwnLookup(procfs.links[prev].inode)
                           ELSE core0.fdinfo_tmp
                IN  /\ handle.fdinfo[k].net = src.net
                    /\ handle.fdinfo[k].socket =
                          (IF src.net = "0" THEN NoSocket ELSE src.socket)

====
